---- MODULE Spec2Model ----
(***************************************************************************)
(* Due-date reminder subsystem of todo-go-backend:                         *)
(*   internal/notifications/service.go   (engine)                          *)
(*   internal/repositories/notification_repository.go  (dispatch log)      *)
(*   internal/notifications/{email,telegram}.go  (channel senders)         *)
(*   internal/notifications/scheduler.go, internal/handlers/user.go        *)
(* and user registration:                                                  *)
(*   authService.Register, internal/repositories/user_repository.go        *)
(*                                                                         *)
(* Time is counted in ticks of the server's wall clock; a calendar day of  *)
(* the server's zone is TicksPerDay consecutive ticks starting at a        *)
(* multiple of TicksPerDay.  A time.Time value is an instant together      *)
(* with the offset (in ticks, east of the server's zone) of its Location.  *)
(***************************************************************************)
EXTENDS Integers, Sequences, FiniteSets, Bags, TLC

\* ------------------------------------------------------------------ bounds
TicksPerDay == 2      \* clock resolution
MaxClock == 2         \* last instant the clock reaches
MaxRuns == 2          \* number of cycles started
MaxFaults == 1        \* injected transient failures (db errors, sender errors)

TaskIds == {1, 2}     \* primary keys of the tasks table
UserIds == {1, 2}     \* primary keys of the users table
Slots == {1, 2}       \* goroutines that may be inside a cycle

Nil == "nil"          \* a nil *string, an unset field
NoDueDate == [nil |-> TRUE]   \* a nil *time.Time

\* --------------------------------------------------------------- constants
NotificationTypeDueSoon == "due_soon"
NotificationTypeDueToday == "due_today"
NotificationTypeOverdue == "overdue"
NotificationTypes ==
    {NotificationTypeDueSoon, NotificationTypeDueToday, NotificationTypeOverdue}

\* net/http status codes the handlers answer with
StatusOK == 200
StatusInternalServerError == 500

NotificationChannelEmail == "email"
NotificationChannelTelegram == "telegram"
NotificationChannels == {NotificationChannelEmail, NotificationChannelTelegram}

VARIABLES
    clock,          \* the instant the last time.Now() returned
    cfg,            \* config.Config: the fields the subsystem reads
    users,          \* users table
    tasks,          \* tasks table
    notifications,  \* notifications table, in insertion order
    cyc,            \* per goroutine: the frame of CheckAndSendNotifications
    runs,           \* cycles started so far
    faults,         \* transient failures still to be injected
    calls,          \* history (a bag): per cycle and task, the skip or the category
                    \* chosen, and the calls made to the dispatch log and the senders
    sched,          \* the goroutine of StartScheduler: "new", "off" (returned
                    \* without a cron) or "on" (cron started)
    responses,      \* history (a bag): the HTTP answers of TestNotifications
    senderCall,     \* the last call of a channel sender: its receiver, its
                    \* arguments, the provider's reply, and what it returned
    accounts,       \* users table as the auth service uses it: id, username and
                    \* email of every row, in insertion order
    reg,            \* per request to POST /auth/register: the frame of
                    \* authService.Register
    login,          \* the last call of authService.Login: its arguments and
                    \* what it returned
    db,             \* tasks table and task_shared_with table as the task
                    \* service uses them
    last,           \* the last call of the task service: the caller, the
                    \* arguments, the tables before it, and what it returned
    page,           \* the last paginated listing: the request, the rows
                    \* matched, and the response
    commits,        \* history: the changes committed by requests to the rows
                    \* the engine reads, in order, each with the row as it was
                    \* and the cycles started before it
    crud            \* per request that changes a row the engine reads: the
                    \* frame of its handler

\* the state of the reminder engine
engineVars == <<clock, cfg, users, tasks, notifications, cyc, runs, faults, calls>>

\* the state outside the engine's cycle
\* the state that neither the engine nor the scheduler touches
\* the state of the task, listing and login requests
api == <<login, db, last, page, commits, crud>>

rest == <<senderCall, accounts, reg, api>>

aux == <<sched, responses, rest>>

vars == <<engineVars, aux>>

\* ------------------------------------------------------------- time.Time
\* Year/Month/Day of t, read in t's own Location, as a day number.
DateOf(t) == (t.inst + t.off) \div TicksPerDay

\* time.Date(t.Year(), t.Month(), t.Day(), 0, 0, 0, 0, t.Location())
StartOfDay(t) == [inst |-> DateOf(t) * TicksPerDay - t.off, off |-> t.off]

\* t.Add(24 * time.Hour)
AddDay(t) == [inst |-> t.inst + TicksPerDay, off |-> t.off]

\* time.Now() returns an instant not before the last one read, in the
\* server's Location
Instants == clock..MaxClock
Now(inst) == [inst |-> inst, off |-> 0]

\* t.Before(u), t.Equal(u): comparison of instants
Before(t, u) == t.inst < u.inst
Equal(t, u) == t.inst = u.inst

\* ------------------------------------------------------------ persistence
\* The Location a stored timestamp comes back with.  The MySQL DSN asks for
\* loc=Local, so every DATETIME is returned in the server's zone; the SQLite
\* driver returns the offset the value was written with.
LoadedTime(t) ==
    IF t = NoDueDate THEN NoDueDate
    ELSE IF cfg.UseMySQL THEN [inst |-> t.inst, off |-> 0] ELSE t

\* the load step without the completed = false condition
TaskIdsWithDueDate == {id \in TaskIds : tasks[id].DueDate # NoDueDate}

\* Where("completed = ? AND due_date IS NOT NULL", false)
ActiveTaskIds == {id \in TaskIds : ~tasks[id].Completed /\ tasks[id].DueDate # NoDueDate}

\* Preload("User"): a task row together with its owner's row
LoadTask(id) ==
    [ID |-> id,
     UserID |-> tasks[id].UserID,
     DueDate |-> LoadedTime(tasks[id].DueDate),
     User |-> users[tasks[id].UserID]]

\* Find(&tasks) has no ORDER BY: the rows come back in any order.
Orders(S) ==
    {q \in [1..Cardinality(S) -> S] : \A a, b \in 1..Cardinality(S) : a # b => q[a] # q[b]}

\* Exists without the channel in its WHERE clause
ExistsOnAnyChannel(userID, taskID, notificationType, channel, date) ==
    LET startOfDay == StartOfDay(date)
        endOfDay == AddDay(startOfDay)
    IN  \E k \in 1..Len(notifications) :
            /\ notifications[k].UserID = userID
            /\ notifications[k].TaskID = taskID
            /\ notifications[k].Type = notificationType
            /\ startOfDay.inst <= notifications[k].SentAt
            /\ notifications[k].SentAt <= endOfDay.inst

\* Exists with the day's first instant left out of the window
ExistsAfterStartOfDay(userID, taskID, notificationType, channel, date) ==
    LET startOfDay == StartOfDay(date)
        endOfDay == AddDay(startOfDay)
    IN  \E k \in 1..Len(notifications) :
            /\ notifications[k].UserID = userID
            /\ notifications[k].TaskID = taskID
            /\ notifications[k].Type = notificationType
            /\ notifications[k].Channel = channel
            /\ startOfDay.inst < notifications[k].SentAt
            /\ notifications[k].SentAt <= endOfDay.inst

\* notificationRepository.Exists: count(*) > 0 over
\*   user_id, task_id, type, channel equal and sent_at BETWEEN startOfDay AND endOfDay
Exists(userID, taskID, notificationType, channel, date) ==
    LET startOfDay == StartOfDay(date)
        endOfDay == AddDay(startOfDay)
    IN  \E k \in 1..Len(notifications) :
            /\ notifications[k].UserID = userID
            /\ notifications[k].TaskID = taskID
            /\ notifications[k].Type = notificationType
            /\ notifications[k].Channel = channel
            /\ startOfDay.inst <= notifications[k].SentAt
            /\ notifications[k].SentAt <= endOfDay.inst

\* ---------------------------------------------------------- reminder policy
\* The if / else-if chain of CheckAndSendNotifications on one loaded task.
NotificationTypeOf(taskDueDate, today) ==
    LET dueDate == StartOfDay(taskDueDate)
        tomorrow == AddDay(today)
    IN  IF Before(dueDate, today) THEN NotificationTypeOverdue
        ELSE IF Equal(dueDate, today) THEN NotificationTypeDueToday
        ELSE IF Equal(dueDate, tomorrow) THEN NotificationTypeDueSoon
        ELSE Nil

\* ------------------------------------------------------------------ senders
\* EmailService.SendNotification: results the call can have
EmailSendResults(user) ==
    IF ~cfg.SMTPConfigured THEN {"email service not configured"}
    ELSE {"ok"} \cup (IF faults > 0 THEN {"failed to send email"} ELSE {})

\* TelegramService.SendNotification: results the call can have
TelegramSendResults(chatID) ==
    IF cfg.TelegramBotToken = "" THEN {"telegram bot token not configured"}
    ELSE IF chatID = "" THEN {"user telegram chat ID not configured"}
    ELSE {"ok"} \cup (IF faults > 0 THEN {"chat not found", "telegram API error"} ELSE {})

SendResults(channel, user) ==
    IF channel = NotificationChannelEmail THEN EmailSendResults(user)
    ELSE TelegramSendResults(user.TelegramChatID)

\* a database call either works or, while failures remain to inject, errors
DBResults == {"ok"} \cup (IF faults > 0 THEN {"err"} ELSE {})

Cost(r) == IF r \in {"ok", "email service not configured",
                     "telegram bot token not configured",
                     "user telegram chat ID not configured"} THEN 0 ELSE 1

\* What a sender returns: nil or an error, and whether it went out to the
\* provider.  An error is its message with the code and text put into it.
Returned(msg, code, text, contacted) ==
    [msg |-> msg, code |-> code, text |-> text, contacted |-> contacted]

\* What the Telegram Bot API can answer to sendMessage: no answer at all (the
\* POST failed), or an HTTP status with a body that is the API's JSON error
\* object (error_code, description) or something json.Unmarshal rejects.
TelegramReplies ==
    [net : {"error"}, status : {0}, parses : {FALSE}, code : {0}, desc : {""}]
    \cup [net : {"ok"}, status : {200}, parses : {TRUE}, code : {0}, desc : {""}]
    \cup [net : {"ok"}, status : {400, 401, 403, 429}, parses : {FALSE}, code : {0},
          desc : {"<html>"}]
    \cup [net : {"ok"}, status : {400, 401, 403, 429}, parses : {TRUE},
          code : {0, 400, 401, 403, 429},
          desc : {"Bad Request: chat not found", "Bad Request: message is too long"}]

\* What the SMTP server can do with smtp.SendMail
SMTPReplies == {"accepted", "error"}

\* TelegramService.SendNotification with the switch on the HTTP status
\* instead of the error_code of the body
TelegramSendNotificationByStatus(botToken, chatID, reply) ==
    IF botToken = "" THEN Returned("telegram bot token not configured", 0, "", FALSE)
    ELSE IF chatID = "" THEN Returned("user telegram chat ID not configured", 0, "", FALSE)
    ELSE IF reply.net # "ok" THEN Returned("failed to send telegram message", 0, "", TRUE)
    ELSE IF reply.status # 200
    THEN IF reply.parses
         THEN IF reply.status = 400
              THEN IF reply.desc = "Bad Request: chat not found"
                   THEN Returned("chat not found", 0, chatID, TRUE)
                   ELSE Returned("telegram API error", 400, reply.desc, TRUE)
              ELSE IF reply.status = 401
              THEN Returned("telegram API error", 401, "invalid bot token", TRUE)
              ELSE IF reply.status = 403
              THEN Returned("telegram API error", 403, "bot was blocked by user", TRUE)
              ELSE Returned("telegram API error", reply.code, reply.desc, TRUE)
         ELSE Returned("telegram API error: body", 0, reply.desc, TRUE)
    ELSE Returned("ok", 0, "", TRUE)

\* TelegramService.SendNotification(chatID, task, notificationType)
TelegramSendNotification(botToken, chatID, reply) ==
    IF botToken = "" THEN Returned("telegram bot token not configured", 0, "", FALSE)
    ELSE IF chatID = "" THEN Returned("user telegram chat ID not configured", 0, "", FALSE)
    ELSE IF reply.net # "ok" THEN Returned("failed to send telegram message", 0, "", TRUE)
    ELSE IF reply.status # 200
    THEN IF reply.parses
         THEN IF reply.code = 400
              THEN IF reply.desc = "Bad Request: chat not found"
                   THEN Returned("chat not found", 0, chatID, TRUE)
                   ELSE Returned("telegram API error", 400, reply.desc, TRUE)
              ELSE IF reply.code = 401
              THEN Returned("telegram API error", 401, "invalid bot token", TRUE)
              ELSE IF reply.code = 403
              THEN Returned("telegram API error", 403, "bot was blocked by user", TRUE)
              ELSE Returned("telegram API error", reply.code, reply.desc, TRUE)
         ELSE Returned("telegram API error: body", 0, reply.desc, TRUE)
    ELSE Returned("ok", 0, "", TRUE)

\* EmailService.SendNotification(user, task, notificationType): host, user and
\* password are the service's fields, email is user.Email
EmailSendNotification(host, user, password, email, reply) ==
    IF host = "" \/ user = "" \/ password = ""
    THEN Returned("email service not configured", 0, "", FALSE)
    ELSE IF reply # "accepted" THEN Returned("failed to send email", 0, "", TRUE)
    ELSE Returned("ok", 0, "", TRUE)

\* no sender called yet
NoCall == [chan |-> Nil]

\* ------------------------------------------------------------- cycle frame
IdleFrame ==
    [pc |-> "idle", kind |-> Nil, run |-> 0, today |-> [inst |-> 0, off |-> 0], list |-> <<>>, i |-> 0,
     ntype |-> Nil, chan |-> Nil, checked |-> 0,
     processedCount |-> 0, skippedCount |-> 0, notificationCount |-> 0,
     result |-> Nil]

CurTask(f) == f.list[f.i]

\* the call history entry of frame f for operation op with result res
Call(f, op, res) ==
    [run |-> f.run, kind |-> f.kind, op |-> op, task |-> CurTask(f).ID,
     user |-> CurTask(f).UserID, type |-> f.ntype, chan |-> f.chan,
     day |-> DateOf(f.today), res |-> res]

\* the history entry of the load step of cycle r
LoadCall(r, kind, today, res) ==
    [run |-> r, kind |-> kind, op |-> "load", task |-> 0, user |-> 0, type |-> Nil,
     chan |-> Nil, day |-> DateOf(today), res |-> res]

\* sendNotification returned: notificationCount++, processedCount++, next task
EndTask(f) ==
    [f EXCEPT !.pc = "loop", !.i = f.i + 1, !.ntype = Nil, !.chan = Nil, !.checked = 0,
              !.notificationCount = f.notificationCount + 1,
              !.processedCount = f.processedCount + 1]

\* the telegram half of sendNotification: gate on the chat id
AfterEmail(f) ==
    LET user == CurTask(f).User
    IN  IF user.TelegramChatID # Nil /\ user.TelegramChatID # ""
        THEN [f EXCEPT !.pc = "exists", !.chan = NotificationChannelTelegram, !.checked = 0]
        ELSE EndTask(f)

\* the email half of sendNotification: gate on the address
EnterSend(f) ==
    LET user == CurTask(f).User
    IN  IF user.Email # ""
        THEN [f EXCEPT !.pc = "exists", !.chan = NotificationChannelEmail]
        ELSE AfterEmail(f)

\* sendNotification returning as soon as the first channel is finished
ReturnAfterChannel(f) == EndTask(f)

\* the channel at hand is finished (sent, suppressed or failed)
AfterChannel(f) ==
    IF f.chan = NotificationChannelEmail THEN AfterEmail(f) ELSE EndTask(f)

\* ------------------------------------------------------------------ actions
\* Slot 1 is the goroutine of the cron job, the others serve POST /notifications/test.
Kind(s) == IF s = 1 THEN "cron" ELSE "manual"

\* Begin with the load error logged and not returned: the cycle goes on with
\* no rows
BeginIgnoringLoadError(s) ==
    /\ cyc[s].pc = "idle"
    /\ runs < MaxRuns
    /\ Kind(s) = "cron" => sched = "on"
    /\ \E now \in Instants, r \in DBResults :
       \E order \in (IF r = "ok" THEN Orders(ActiveTaskIds) ELSE {<<>>}) :
          /\ clock' = now
          /\ cyc' = [cyc EXCEPT ![s] =
                       [IdleFrame EXCEPT !.pc = "loop", !.kind = Kind(s), !.run = runs + 1,
                                         !.today = StartOfDay(Now(now)),
                                         !.list = [k \in 1..Len(order) |-> LoadTask(order[k])],
                                         !.i = 1]]
          /\ calls' = calls (+) SetToBag({LoadCall(runs + 1, Kind(s), StartOfDay(Now(now)), r)})
          /\ faults' = faults - Cost(r)
    /\ runs' = runs + 1
    /\ UNCHANGED <<cfg, users, tasks, notifications, aux>>

\* StartScheduler with the test of cfg.NotificationsEnabled left out
StartSchedulerAlways ==
    /\ sched = "new"
    /\ sched' = "on"
    /\ UNCHANGED <<engineVars, responses, rest>>

\* go notifications.StartScheduler(cfg, notificationService): returns at once
\* when notifications are disabled, else registers the job and starts the cron
StartScheduler ==
    /\ sched = "new"
    /\ sched' = IF ~cfg.NotificationsEnabled THEN "off" ELSE "on"
    /\ UNCHANGED <<engineVars, responses, rest>>

\* A goroutine enters CheckAndSendNotifications: the job of a started cron, on
\* a tick of its schedule, or the handler TestNotifications.
\* It reads the clock and loads the active tasks; a load error returns it.
Begin(s) ==
    /\ cyc[s].pc = "idle"
    /\ runs < MaxRuns
    /\ Kind(s) = "cron" => sched = "on"
    /\ \E now \in Instants, r \in DBResults :
       \E order \in (IF r = "ok" THEN Orders(ActiveTaskIds) ELSE {<<>>}) :
          /\ clock' = now
          /\ cyc' = [cyc EXCEPT ![s] =
                       IF r = "ok"
                       THEN [IdleFrame EXCEPT !.pc = "loop", !.kind = Kind(s), !.run = runs + 1,
                                              !.today = StartOfDay(Now(now)),
                                              !.list = [k \in 1..Len(order) |-> LoadTask(order[k])],
                                              !.i = 1]
                       ELSE [IdleFrame EXCEPT !.pc = "done", !.kind = Kind(s), !.run = runs + 1,
                                              !.today = StartOfDay(Now(now)),
                                              !.result = "err"]]
          /\ calls' = calls (+) SetToBag({LoadCall(runs + 1, Kind(s), StartOfDay(Now(now)), r)})
          /\ faults' = faults - Cost(r)
    /\ runs' = runs + 1
    /\ UNCHANGED <<cfg, users, tasks, notifications, aux>>

\* The cron fires: it runs the job in a goroutine of its own (cron.New() has no
\* job wrapper), whatever the goroutines of earlier firings are doing.
\* Goroutine s starts a scheduled cycle.
Tick(s) ==
    /\ cyc[s].pc = "idle"
    /\ runs < MaxRuns
    /\ sched = "on"
    /\ \E now \in Instants, r \in DBResults :
       \E order \in (IF r = "ok" THEN Orders(ActiveTaskIds) ELSE {<<>>}) :
          /\ clock' = now
          /\ cyc' = [cyc EXCEPT ![s] =
                       IF r = "ok"
                       THEN [IdleFrame EXCEPT !.pc = "loop", !.kind = "cron", !.run = runs + 1,
                                              !.today = StartOfDay(Now(now)),
                                              !.list = [k \in 1..Len(order) |-> LoadTask(order[k])],
                                              !.i = 1]
                       ELSE [IdleFrame EXCEPT !.pc = "done", !.kind = "cron", !.run = runs + 1,
                                              !.today = StartOfDay(Now(now)),
                                              !.result = "err"]]
          /\ calls' = calls (+) SetToBag({LoadCall(runs + 1, "cron", StartOfDay(Now(now)), r)})
          /\ faults' = faults - Cost(r)
    /\ runs' = runs + 1
    /\ UNCHANGED <<cfg, users, tasks, notifications, aux>>

\* NextTask that reads the owner's setting from the users table when it takes
\* up the task
NextTaskLiveUser(s) ==
    LET f == cyc[s]
        task == CurTask(f)
        type == NotificationTypeOf(task.DueDate, f.today)
        enabled == users[task.UserID].NotificationsEnabled
    IN  /\ f.pc = "loop"
        /\ f.i <= Len(f.list)
        /\ cyc' = [cyc EXCEPT ![s] =
                     IF task.DueDate = NoDueDate \/ ~enabled
                     THEN [f EXCEPT !.i = f.i + 1, !.skippedCount = f.skippedCount + 1]
                     ELSE IF type = Nil
                     THEN [f EXCEPT !.i = f.i + 1, !.processedCount = f.processedCount + 1]
                     ELSE EnterSend([f EXCEPT !.ntype = type])]
        /\ calls' = IF task.DueDate = NoDueDate \/ ~enabled
                    THEN calls (+) SetToBag({Call(f, "skip", "skipped")})
                    ELSE calls (+) SetToBag({Call([f EXCEPT !.ntype = type], "classify", "ok")})
        /\ UNCHANGED <<clock, cfg, users, tasks, notifications, runs, faults, aux>>

\* NextTask without the test of task.User.NotificationsEnabled
NextTaskAnyUser(s) ==
    LET f == cyc[s]
        task == CurTask(f)
        type == NotificationTypeOf(task.DueDate, f.today)
    IN  /\ f.pc = "loop"
        /\ f.i <= Len(f.list)
        /\ cyc' = [cyc EXCEPT ![s] =
                     IF task.DueDate = NoDueDate
                     THEN [f EXCEPT !.i = f.i + 1, !.skippedCount = f.skippedCount + 1]
                     ELSE IF type = Nil
                     THEN [f EXCEPT !.i = f.i + 1, !.processedCount = f.processedCount + 1]
                     ELSE EnterSend([f EXCEPT !.ntype = type])]
        /\ calls' = IF task.DueDate = NoDueDate
                    THEN calls (+) SetToBag({Call(f, "skip", "skipped")})
                    ELSE calls (+) SetToBag({Call([f EXCEPT !.ntype = type], "classify", "ok")})
        /\ UNCHANGED <<clock, cfg, users, tasks, notifications, runs, faults, aux>>

\* One iteration of `for _, task := range tasks` up to the first call of
\* sendNotification that leaves the process (or to the end of the iteration).
NextTask(s) ==
    LET f == cyc[s]
        task == CurTask(f)
        type == NotificationTypeOf(task.DueDate, f.today)
    IN  /\ f.pc = "loop"
        /\ f.i <= Len(f.list)
        /\ cyc' = [cyc EXCEPT ![s] =
                     IF task.DueDate = NoDueDate \/ ~task.User.NotificationsEnabled
                     THEN [f EXCEPT !.i = f.i + 1, !.skippedCount = f.skippedCount + 1]
                     ELSE IF type = Nil
                     THEN [f EXCEPT !.i = f.i + 1, !.processedCount = f.processedCount + 1]
                     ELSE EnterSend([f EXCEPT !.ntype = type])]
        /\ calls' = IF task.DueDate = NoDueDate \/ ~task.User.NotificationsEnabled
                    THEN calls (+) SetToBag({Call(f, "skip", "skipped")})
                    ELSE calls (+) SetToBag({Call([f EXCEPT !.ntype = type], "classify", "ok")})
        /\ UNCHANGED <<clock, cfg, users, tasks, notifications, runs, faults, aux>>

\* ExistsStep that takes an error of the check for "not sent yet"
ExistsStepErrorAsNotSent(s) ==
    LET f == cyc[s]
        task == CurTask(f)
        found == Exists(task.UserID, task.ID, f.ntype, f.chan, f.today)
    IN  /\ f.pc = "exists"
        /\ \E r \in DBResults :
              /\ cyc' = [cyc EXCEPT ![s] =
                           IF r # "ok" \/ ~found
                           THEN [f EXCEPT !.pc = "send", !.checked = Len(notifications)]
                           ELSE AfterChannel(f)]
              /\ calls' = calls (+) SetToBag(
                    {Call(f, "exists", IF r # "ok" THEN "err" ELSE IF found THEN "true" ELSE "false")})
              /\ faults' = faults - Cost(r)
        /\ UNCHANGED <<clock, cfg, users, tasks, notifications, runs, aux>>

\* s.notificationRepo.Exists(task.UserID, task.ID, notificationType, channel, date)
ExistsStep(s) ==
    LET f == cyc[s]
        task == CurTask(f)
        found == Exists(task.UserID, task.ID, f.ntype, f.chan, f.today)
    IN  /\ f.pc = "exists"
        /\ \E r \in DBResults :
              /\ cyc' = [cyc EXCEPT ![s] =
                           IF r = "ok" /\ ~found
                           THEN [f EXCEPT !.pc = "send", !.checked = Len(notifications)]
                           ELSE AfterChannel(f)]
              /\ calls' = calls (+) SetToBag(
                    {Call(f, "exists", IF r # "ok" THEN "err" ELSE IF found THEN "true" ELSE "false")})
              /\ faults' = faults - Cost(r)
        /\ UNCHANGED <<clock, cfg, users, tasks, notifications, runs, aux>>

\* SendStep that records the notification whatever the sender returned
SendStepRecordAlways(s) ==
    LET f == cyc[s]
        task == CurTask(f)
    IN  /\ f.pc = "send"
        /\ \E r \in SendResults(f.chan, task.User) :
              /\ cyc' = [cyc EXCEPT ![s] = [f EXCEPT !.pc = "create"]]
              /\ calls' = calls (+) SetToBag({Call(f, "send", r)})
              /\ faults' = faults - Cost(r)
        /\ UNCHANGED <<clock, cfg, users, tasks, notifications, runs, aux>>

\* SendStep that returns from the cycle when the sender fails
SendStepAbortOnError(s) ==
    LET f == cyc[s]
        task == CurTask(f)
    IN  /\ f.pc = "send"
        /\ \E r \in SendResults(f.chan, task.User) :
              /\ cyc' = [cyc EXCEPT ![s] =
                           IF r = "ok" THEN [f EXCEPT !.pc = "create"]
                           ELSE [f EXCEPT !.pc = "done", !.result = "ok"]]
              /\ calls' = calls (+) SetToBag({Call(f, "send", r)})
              /\ faults' = faults - Cost(r)
        /\ UNCHANGED <<clock, cfg, users, tasks, notifications, runs, aux>>

\* s.emailService.SendNotification / s.telegramService.SendNotification
SendStep(s) ==
    LET f == cyc[s]
        task == CurTask(f)
    IN  /\ f.pc = "send"
        /\ \E r \in SendResults(f.chan, task.User) :
              /\ cyc' = [cyc EXCEPT ![s] =
                           IF r = "ok" THEN [f EXCEPT !.pc = "create"] ELSE AfterChannel(f)]
              /\ calls' = calls (+) SetToBag({Call(f, "send", r)})
              /\ faults' = faults - Cost(r)
        /\ UNCHANGED <<clock, cfg, users, tasks, notifications, runs, aux>>

\* CreateStep that returns the error of the record write from the cycle
CreateStepReturnError(s) ==
    LET f == cyc[s]
        task == CurTask(f)
        notification(now) == [UserID |-> task.UserID, TaskID |-> task.ID, Type |-> f.ntype,
                              Channel |-> f.chan, SentAt |-> Now(now).inst]
    IN  /\ f.pc = "create"
        /\ \E now \in Instants, r \in DBResults :
              /\ clock' = now
              /\ notifications' = IF r = "ok" THEN Append(notifications, notification(now))
                                  ELSE notifications
              /\ calls' = calls (+) SetToBag({Call(f, "create", r)})
              /\ faults' = faults - Cost(r)
              /\ cyc' = [cyc EXCEPT ![s] =
                           IF r = "ok" THEN AfterChannel(f)
                           ELSE [f EXCEPT !.pc = "done", !.result = "err"]]
        /\ UNCHANGED <<cfg, users, tasks, runs, aux>>

\* CreateStep that drops the records of earlier days
CreateStepPruning(s) ==
    LET f == cyc[s]
        task == CurTask(f)
        notification(now) == [UserID |-> task.UserID, TaskID |-> task.ID, Type |-> f.ntype,
                              Channel |-> f.chan, SentAt |-> Now(now).inst]
        SameDay(n) == DateOf(Now(n.SentAt)) = DateOf(f.today)
    IN  /\ f.pc = "create"
        /\ \E now \in Instants, r \in DBResults :
              /\ clock' = now
              /\ notifications' = IF r = "ok"
                                  THEN Append(SelectSeq(notifications, SameDay),
                                              notification(now))
                                  ELSE notifications
              /\ calls' = calls (+) SetToBag({Call(f, "create", r)})
              /\ faults' = faults - Cost(r)
        /\ cyc' = [cyc EXCEPT ![s] = AfterChannel(f)]
        /\ UNCHANGED <<cfg, users, tasks, runs, aux>>

\* s.notificationRepo.Create(&models.Notification{..., SentAt: time.Now()})
CreateStep(s) ==
    LET f == cyc[s]
        task == CurTask(f)
        notification(now) == [UserID |-> task.UserID, TaskID |-> task.ID, Type |-> f.ntype,
                              Channel |-> f.chan, SentAt |-> Now(now).inst]
    IN  /\ f.pc = "create"
        /\ \E now \in Instants, r \in DBResults :
              /\ clock' = now
              /\ notifications' = IF r = "ok" THEN Append(notifications, notification(now))
                                  ELSE notifications
              /\ calls' = calls (+) SetToBag({Call(f, "create", r)})
              /\ faults' = faults - Cost(r)
        /\ cyc' = [cyc EXCEPT ![s] = AfterChannel(f)]
        /\ UNCHANGED <<cfg, users, tasks, runs, aux>>

\* the loop is over: log the counts, return nil
Finish(s) ==
    /\ cyc[s].pc = "loop"
    /\ cyc[s].i > Len(cyc[s].list)
    /\ cyc' = [cyc EXCEPT ![s].pc = "done", ![s].result = "ok"]
    /\ UNCHANGED <<clock, cfg, users, tasks, notifications, runs, faults, calls, aux>>

\* Return with the handler answering 200 whatever the cycle returned
ReturnAlwaysOK(s) ==
    /\ cyc[s].pc = "done"
    /\ cyc' = [cyc EXCEPT ![s] = IdleFrame]
    /\ responses' = IF cyc[s].kind = "manual"
                     THEN responses (+) SetToBag({[run |-> cyc[s].run, status |-> StatusOK]})
                     ELSE responses
    /\ UNCHANGED <<clock, cfg, users, tasks, notifications, runs, faults, calls, sched, rest>>

\* The caller has the result and the goroutine ends: the cron job logs it,
\* TestNotifications answers handleError(NewInternalServerError(err)) or
\* handleSuccess(http.StatusOK, "Notification check completed...").
Return(s) ==
    /\ cyc[s].pc = "done"
    /\ cyc' = [cyc EXCEPT ![s] = IdleFrame]
    /\ responses' = IF cyc[s].kind = "manual"
                     THEN responses (+) SetToBag(
                            {[run |-> cyc[s].run,
                              status |-> IF cyc[s].result = "err"
                                         THEN StatusInternalServerError ELSE StatusOK]})
                     ELSE responses
    /\ UNCHANGED <<clock, cfg, users, tasks, notifications, runs, faults, calls, sched, rest>>

Next ==
    \/ StartScheduler
    \/ \E s \in Slots : Begin(s)
    \/ \E s \in Slots : NextTask(s)
    \/ \E s \in Slots : ExistsStep(s)
    \/ \E s \in Slots : SendStep(s)
    \/ \E s \in Slots : CreateStep(s)
    \/ \E s \in Slots : Finish(s)
    \/ \E s \in Slots : Return(s)

\* ------------------------------------------------------------ registration
RegSlots == {1, 2}    \* requests to POST /auth/register in progress

\* a username is any string of 3 to 50 characters: it may have the form of an
\* e-mail address
Usernames == {"ann", "bob", "cat", "c@x.com"}
Emails == {"a@x.com", "b@x.com", "c@x.com", "d@x.com"}
Passwords == {"pw1", "pw2"}

\* utils.HashPassword: the bcrypt hash of a password
HashPassword(password) == <<"bcrypt", password>>

\* utils.CheckPasswordHash: whether hash is a bcrypt hash of password
CheckPasswordHash(password, hash) == hash = HashPassword(password)

ErrUserAlreadyExists == "user already exists"

\* the error NewInternalServerError wraps
ErrInternal == "internal server error"

IdleRegister ==
    [pc |-> "idle", username |-> "", email |-> "", password |-> "", taken |-> FALSE,
     lookup |-> Nil,
     err |-> Nil, token |-> Nil, created |-> FALSE]

\* the lookup of Register on the username alone
ExistsByUsername(username, email) ==
    \E k \in 1..Len(accounts) : accounts[k].Username = username

\* userRepository.ExistsByUsernameOrEmail:
\*   count(*) > 0 over username = ? OR email = ?
ExistsByUsernameOrEmail(username, email) ==
    \E k \in 1..Len(accounts) :
        accounts[k].Username = username \/ accounts[k].Email = email

\* the uniqueIndex on users.username and the one on users.email reject the row
UniqueViolation(username, email) ==
    \/ \E k \in 1..Len(accounts) : accounts[k].Username = username
    \/ \E k \in 1..Len(accounts) : accounts[k].Email = email

\* authService.Register up to the answer of the lookup
RegisterLookup(s) ==
    /\ reg[s].pc = "idle"
    /\ \E username \in Usernames, email \in Emails, password \in Passwords,
          r \in {"ok", "err"} :
          LET f == [IdleRegister EXCEPT
                       !.username = username, !.email = email,
                       !.password = password, !.lookup = r,
                       !.taken = \E k \in 1..Len(accounts) :
                                    accounts[k].Username = username
                                    \/ accounts[k].Email = email]
          IN  reg' = [reg EXCEPT ![s] =
                        IF r = "err" THEN [f EXCEPT !.pc = "done", !.err = ErrInternal]
                        ELSE IF ExistsByUsernameOrEmail(username, email)
                        THEN [f EXCEPT !.pc = "done", !.err = ErrUserAlreadyExists]
                        ELSE [f EXCEPT !.pc = "create"]]
    /\ UNCHANGED <<engineVars, sched, responses, senderCall, accounts, api>>

\* authService.Register from utils.HashPassword on: hash the password, insert
\* the row, issue the token
RegisterCreate(s) ==
    /\ reg[s].pc = "create"
    /\ \E hash \in {"ok", "err"}, r \in {"ok", "err"}, signed \in {"ok", "err"} :
          LET f == reg[s]
              inserted == /\ hash = "ok" /\ r = "ok"
                          /\ ~UniqueViolation(f.username, f.email)
          IN  /\ accounts' = IF inserted
                             THEN Append(accounts, [ID |-> Len(accounts) + 1,
                                                    Username |-> f.username,
                                                    Email |-> f.email,
                                                    Password |-> HashPassword(f.password)])
                             ELSE accounts
              /\ reg' = [reg EXCEPT ![s] =
                           IF ~inserted THEN [f EXCEPT !.pc = "done", !.err = ErrInternal]
                           ELSE IF signed = "err"
                           THEN [f EXCEPT !.pc = "done", !.err = ErrInternal, !.created = TRUE]
                           ELSE [f EXCEPT !.pc = "done", !.token = "jwt", !.created = TRUE]]
    /\ UNCHANGED <<engineVars, sched, responses, senderCall, api>>

\* AuthHandler.Register answers and the request ends
RegisterReturn(s) ==
    /\ reg[s].pc = "done"
    /\ reg' = [reg EXCEPT ![s] = IdleRegister]
    /\ UNCHANGED <<engineVars, sched, responses, senderCall, accounts, api>>

AuthNext ==
    \/ \E s \in RegSlots : RegisterLookup(s)
    \/ \E s \in RegSlots : RegisterCreate(s)
    \/ \E s \in RegSlots : RegisterReturn(s)

\* ------------------------------------------------------------------- login
ErrInvalidCredentials == "invalid credentials"
ErrUserNotFound == "user not found"

NoLogin == [identifier |-> Nil]

\* the rows with username = identifier OR email = identifier
MatchingAccounts(identifier) ==
    {k \in 1..Len(accounts) :
        accounts[k].Username = identifier \/ accounts[k].Email = identifier}

\* a nil *models.User
NoUser == [ID |-> 0]

\* userRepository.FindByUsernameOrEmailValue: First orders by primary key;
\* NoUser comes with gorm.ErrRecordNotFound
FindByUsernameOrEmailValue(identifier) ==
    LET found == MatchingAccounts(identifier)
    IN  IF found = {} THEN NoUser
        ELSE accounts[CHOOSE k \in found : \A j \in found : k <= j]

\* what Login returns: the user, the token and the error
LoginReturned(user, token, err) == [user |-> user, token |-> token, err |-> err]

\* Login that tells an unknown identifier from a wrong password
LoginTellingUnknownUser ==
    /\ \E identifier \in Usernames \cup Emails, password \in Passwords,
          r \in {"ok", "err"}, signed \in {"ok", "err"} :
          LET user == FindByUsernameOrEmailValue(identifier)
          IN  login' =
                 [identifier |-> identifier, password |-> password,
                  out |-> IF r = "err" \/ user = NoUser
                          THEN LoginReturned(NoUser.ID, Nil, ErrUserNotFound)
                          ELSE IF ~CheckPasswordHash(password, user.Password)
                          THEN LoginReturned(NoUser.ID, Nil, ErrInvalidCredentials)
                          ELSE IF signed = "err"
                          THEN LoginReturned(NoUser.ID, Nil, ErrInternal)
                          ELSE LoginReturned(user.ID, "jwt", Nil)]
    /\ UNCHANGED <<engineVars, sched, responses, senderCall, accounts, reg,
                   db, last, page, commits, crud>>

\* authService.Login, with any identifier and password, any outcome of the
\* query and of the signing of the token
Login ==
    /\ \E identifier \in Usernames \cup Emails, password \in Passwords,
          r \in {"ok", "err"}, signed \in {"ok", "err"} :
          LET user == FindByUsernameOrEmailValue(identifier)
          IN  login' =
                 [identifier |-> identifier, password |-> password,
                  out |-> IF r = "err" \/ user = NoUser
                          THEN LoginReturned(NoUser.ID, Nil, ErrInvalidCredentials)
                          ELSE IF ~CheckPasswordHash(password, user.Password)
                          THEN LoginReturned(NoUser.ID, Nil, ErrInvalidCredentials)
                          ELSE IF signed = "err"
                          THEN LoginReturned(NoUser.ID, Nil, ErrInternal)
                          ELSE LoginReturned(user.ID, "jwt", Nil)]
    /\ UNCHANGED <<engineVars, sched, responses, senderCall, accounts, reg,
                   db, last, page, commits, crud>>

\* registrations one at a time, and logins
LoginNext ==
    \/ RegisterLookup(1)
    \/ RegisterCreate(1)
    \/ RegisterReturn(1)
    \/ Login

\* ------------------------------------------------------------------- tasks
MaxTasks == 1         \* rows ever inserted into the tasks table

TaskUsers == {1, 2, 3}    \* primary keys of the users the requests come from
UnknownUser == 4          \* a primary key with no row in the users table
NoUserID == 0             \* a nil *uint
TaskKeys == 1..MaxTasks   \* the :id of a request

ErrTaskNotFound == "task not found"
ErrForbidden == "forbidden"
ErrInvalidInput == "invalid input"

\* tasks table in insertion order (the primary key of a row is its index; a
\* deleted row stays, with deleted_at set), and task_shared_with table
NoTasks == [rows |-> <<>>, shared |-> {}]
NoRequest == [op |-> Nil]

\* userRepository.FindByID finds a row
FindUserByID(id) == id \in TaskUsers

\* taskRepository.FindByID finds a row: First leaves out the rows with
\* deleted_at set
FindByID(d, id) == id \in 1..Len(d.rows) /\ ~d.rows[id].Deleted

\* taskRepository.UserCanAccessTask
UserCanAccessTask(d, taskID, userID) ==
    \/ d.rows[taskID].UserID = userID
    \/ d.rows[taskID].AssignedBy # NoUserID /\ d.rows[taskID].AssignedBy = userID
    \/ <<taskID, userID>> \in d.shared

\* taskRepository.AddSharedWith: FirstOrCreate on (task_id, user_id)
AddSharedWith(d, taskID, userID) == [d EXCEPT !.shared = @ \cup {<<taskID, userID>>}]

\* taskRepository.RemoveSharedWith
RemoveSharedWith(d, taskID, userID) == [d EXCEPT !.shared = @ \ {<<taskID, userID>>}]

\* the request served, the tables before it, the query that failed if one
\* did, and the error returned
Answer(op, caller, task, arg, fault, err) ==
    [op |-> op, caller |-> caller, task |-> task, arg |-> arg, fault |-> fault,
     before |-> db, err |-> err]

TaskFrame ==
    <<engineVars, sched, responses, senderCall, accounts, reg, login, page, commits, crud>>

\* Create that does not share the task with its creator
CreateWithoutSharing(userID) ==
    \E target \in TaskUsers \cup {UnknownUser, NoUserID},
       fault \in {"none", "user", "create", "share", "reload"} :
       LET targetUserID == IF target = NoUserID THEN userID ELSE target
           id == Len(db.rows) + 1
           task == [ID |-> id, UserID |-> targetUserID, AssignedBy |-> userID,
                    Completed |-> FALSE, Deleted |-> FALSE]
           created == [db EXCEPT !.rows = Append(@, task)]
           forOther == target # NoUserID /\ target # userID
       IN  /\ IF target # NoUserID /\ (fault = "user" \/ ~FindUserByID(target))
              THEN /\ db' = db
                   /\ last' = Answer("Create", userID, 0, target, fault, ErrUserNotFound)
              ELSE /\ Len(db.rows) < MaxTasks
                   /\ IF fault = "create"
                      THEN /\ db' = db
                           /\ last' = Answer("Create", userID, 0, target, fault, ErrInternal)
                      ELSE /\ db' = created
                           /\ last' = Answer("Create", userID, id, target, fault,
                                             IF fault = "reload" THEN ErrInternal ELSE Nil)
           /\ UNCHANGED TaskFrame

\* taskService.Create by userID, for themselves or for the user the request
\* names, with any query failing
Create(userID) ==
    \E target \in TaskUsers \cup {UnknownUser, NoUserID},
       fault \in {"none", "user", "create", "share", "reload"} :
       LET targetUserID == IF target = NoUserID THEN userID ELSE target
           id == Len(db.rows) + 1
           task == [ID |-> id, UserID |-> targetUserID, AssignedBy |-> userID,
                    Completed |-> FALSE, Deleted |-> FALSE]
           created == [db EXCEPT !.rows = Append(@, task)]
           forOther == target # NoUserID /\ target # userID
       IN  /\ IF target # NoUserID /\ (fault = "user" \/ ~FindUserByID(target))
              THEN /\ db' = db
                   /\ last' = Answer("Create", userID, 0, target, fault, ErrUserNotFound)
              ELSE /\ Len(db.rows) < MaxTasks
                   /\ IF fault = "create"
                      THEN /\ db' = db
                           /\ last' = Answer("Create", userID, 0, target, fault, ErrInternal)
                      ELSE IF forOther /\ fault = "share"
                      THEN /\ db' = created
                           /\ last' = Answer("Create", userID, id, target, fault, ErrInternal)
                      ELSE /\ db' = IF forOther THEN AddSharedWith(created, id, userID)
                                    ELSE created
                           /\ last' = Answer("Create", userID, id, target, fault,
                                             IF fault = "reload" THEN ErrInternal ELSE Nil)
           /\ UNCHANGED TaskFrame

\* taskService.GetByID
GetByID(userID) ==
    \E taskID \in TaskKeys, fault \in {"none", "find", "access"} :
       /\ db' = db
       /\ last' = Answer("GetByID", userID, taskID, 0, fault,
                         IF fault = "find" \/ ~FindByID(db, taskID) THEN ErrTaskNotFound
                         ELSE IF fault = "access" \/ ~UserCanAccessTask(db, taskID, userID)
                         THEN ErrForbidden
                         ELSE Nil)
       /\ UNCHANGED TaskFrame

\* taskService.Update of the completed field
Update(userID) ==
    \E taskID \in TaskKeys, completed \in BOOLEAN,
       fault \in {"none", "find", "access", "save", "reload"} :
       LET err == IF fault = "find" \/ ~FindByID(db, taskID) THEN ErrTaskNotFound
                  ELSE IF fault = "access" \/ ~UserCanAccessTask(db, taskID, userID)
                  THEN ErrForbidden
                  ELSE IF fault \in {"save", "reload"} THEN ErrInternal
                  ELSE Nil
           saved == err = Nil \/ (err = ErrInternal /\ fault = "reload")
       IN  /\ db' = IF saved THEN [db EXCEPT !.rows[taskID].Completed = completed] ELSE db
           /\ last' = Answer("Update", userID, taskID, completed, fault, err)
           /\ UNCHANGED TaskFrame

\* Delete with the check of GetByID and Update
DeleteWithAccess(userID) ==
    \E taskID \in TaskKeys, fault \in {"none", "find", "delete"} :
       LET err == IF fault = "find" \/ ~FindByID(db, taskID) THEN ErrTaskNotFound
                  ELSE IF ~UserCanAccessTask(db, taskID, userID) THEN ErrForbidden
                  ELSE IF fault = "delete" THEN ErrInternal
                  ELSE Nil
       IN  /\ db' = IF err = Nil THEN [db EXCEPT !.rows[taskID].Deleted = TRUE] ELSE db
           /\ last' = Answer("Delete", userID, taskID, 0, fault, err)
           /\ UNCHANGED TaskFrame

\* taskService.Delete
Delete(userID) ==
    \E taskID \in TaskKeys, fault \in {"none", "find", "delete"} :
       LET err == IF fault = "find" \/ ~FindByID(db, taskID) THEN ErrTaskNotFound
                  ELSE IF db.rows[taskID].UserID # userID THEN ErrForbidden
                  ELSE IF fault = "delete" THEN ErrInternal
                  ELSE Nil
       IN  /\ db' = IF err = Nil THEN [db EXCEPT !.rows[taskID].Deleted = TRUE] ELSE db
           /\ last' = Answer("Delete", userID, taskID, 0, fault, err)
           /\ UNCHANGED TaskFrame

\* the userIDs of a ShareTask request
ShareLists ==
    {<<u>> : u \in TaskUsers \cup {UnknownUser}}
    \cup {<<u, v>> : u \in TaskUsers, v \in TaskUsers \cup {UnknownUser}}

\* the loop of ShareTask from position k on: the tables and the error when it
\* returns
RECURSIVE ShareLoop(_, _, _, _, _)
ShareLoop(d, ownerID, taskID, userIDs, k) ==
    IF k > Len(userIDs) THEN [db |-> d, err |-> Nil]
    ELSE IF userIDs[k] = ownerID THEN ShareLoop(d, ownerID, taskID, userIDs, k + 1)
    ELSE IF ~FindUserByID(userIDs[k]) THEN [db |-> d, err |-> ErrInvalidInput]
    ELSE ShareLoop(AddSharedWith(d, taskID, userIDs[k]), ownerID, taskID, userIDs, k + 1)

\* taskService.ShareTask
ShareTask(ownerID) ==
    \E taskID \in TaskKeys, userIDs \in ShareLists, fault \in {"none", "find"} :
       LET found == fault # "find" /\ FindByID(db, taskID)
           out == IF ~found THEN [db |-> db, err |-> ErrTaskNotFound]
                  ELSE IF db.rows[taskID].UserID # ownerID
                  THEN [db |-> db, err |-> ErrForbidden]
                  ELSE ShareLoop(db, ownerID, taskID, userIDs, 1)
       IN  /\ db' = out.db
           /\ last' = Answer("ShareTask", ownerID, taskID, userIDs, fault, out.err)
           /\ UNCHANGED TaskFrame

\* taskService.UnshareTask
UnshareTask(ownerID) ==
    \E taskID \in TaskKeys, sharedUserID \in TaskUsers,
       fault \in {"none", "find", "remove"} :
       LET err == IF fault = "find" \/ ~FindByID(db, taskID) THEN ErrTaskNotFound
                  ELSE IF db.rows[taskID].UserID # ownerID THEN ErrForbidden
                  ELSE IF fault = "remove" THEN ErrInternal
                  ELSE Nil
       IN  /\ db' = IF err = Nil THEN RemoveSharedWith(db, taskID, sharedUserID) ELSE db
           /\ last' = Answer("UnshareTask", ownerID, taskID, sharedUserID, fault, err)
           /\ UNCHANGED TaskFrame

\* requests of any user to the task service, one after another
TaskNext ==
    \/ \E userID \in TaskUsers : Create(userID)
    \/ \E userID \in TaskUsers : GetByID(userID)
    \/ \E userID \in TaskUsers : Update(userID)
    \/ \E userID \in TaskUsers : Delete(userID)
    \/ \E userID \in TaskUsers : ShareTask(userID)
    \/ \E userID \in TaskUsers : UnshareTask(userID)

\* ---------------------------------------------------------------- listings
MaxRows == 5          \* rows a listing matches

DefaultPage == 1
DefaultLimit == 10
MaxLimit == 100

NoPage == [op |-> Nil]

\* a query parameter: not given, not a number, or a decimal number
Absent == [kind |-> "absent"]
Text == [kind |-> "text"]
Number(n) == [kind |-> "int", n |-> n]

PageParams == {Absent, Text} \cup {Number(n) : n \in (0 - 1)..3}
LimitParams == {Absent, Text} \cup {Number(n) : n \in {0 - 1, 0, 1, 2, 100, 101}}

\* strconv.Atoi of a parameter that was given
Atoi(p) == IF p.kind = "int" THEN [n |-> p.n, err |-> FALSE] ELSE [n |-> 0, err |-> TRUE]

\* GetTasks, GetAssignedTasks: the field of TaskFilters a parameter sets; 0 is
\* the field left unset
FilterField(p) ==
    IF p.kind # "absent" /\ ~Atoi(p).err /\ Atoi(p).n > 0 THEN Atoi(p).n ELSE 0

\* the page a listing uses
EffectivePage(requested) == IF requested > 0 THEN requested ELSE DefaultPage

\* the limit without its maximum
EffectiveLimitUncapped(requested) ==
    IF requested > 0 THEN requested ELSE DefaultLimit

\* the limit a listing uses
EffectiveLimit(requested) ==
    IF requested > 0
    THEN IF requested > MaxLimit THEN MaxLimit ELSE requested
    ELSE DefaultLimit

\* int((total + int64(limit) - 1) / int64(limit)), and 1 when that is 0
TotalPages(total, limit) ==
    LET totalPages == (total + limit - 1) \div limit
    IN  IF totalPages = 0 THEN 1 ELSE totalPages

\* the rows matched, in the order of the query, from OFFSET on, LIMIT at most
Window(total, offset, limit) ==
    [k \in 1..(IF total - offset < 0 THEN 0
               ELSE IF total - offset < limit THEN total - offset ELSE limit) |->
        offset + k]

PaginatedResponse(items, total, pg, limit) ==
    [Items |-> items, Total |-> total, Page |-> pg, Limit |-> limit,
     TotalPages |-> TotalPages(total, limit)]

PageFrame ==
    <<engineVars, sched, responses, senderCall, accounts, reg, login, db, last, commits, crud>>

\* GetTasks and taskService.GetByUserID, GetAssignedTasks and
\* taskService.GetAssignedByUser, over total matching rows
ListTasks(op) ==
    /\ \E pageParam \in PageParams, limitParam \in LimitParams, total \in 0..MaxRows :
          LET pg == EffectivePage(FilterField(pageParam))
              limit == EffectiveLimit(FilterField(limitParam))
          IN  page' = [op |-> op, pageParam |-> pageParam, limitParam |-> limitParam,
                       total |-> total,
                       out |-> PaginatedResponse(Window(total, (pg - 1) * limit, limit),
                                                 total, pg, limit)]
    /\ UNCHANGED PageFrame

\* UserHandler.GetUsers over total rows of the users table
GetUsers ==
    /\ \E pageParam \in PageParams, limitParam \in LimitParams, total \in 0..MaxRows :
          LET pg == IF pageParam.kind # "absent" /\ ~Atoi(pageParam).err
                    THEN EffectivePage(Atoi(pageParam).n) ELSE DefaultPage
              limit == IF limitParam.kind # "absent" /\ ~Atoi(limitParam).err
                       THEN EffectiveLimit(Atoi(limitParam).n) ELSE DefaultLimit
          IN  page' = [op |-> "GetUsers", pageParam |-> pageParam,
                       limitParam |-> limitParam, total |-> total,
                       out |-> PaginatedResponse(Window(total, (pg - 1) * limit, limit),
                                                 total, pg, limit)]
    /\ UNCHANGED PageFrame

PageNext ==
    \/ ListTasks("GetByUserID")
    \/ ListTasks("GetAssignedByUser")
    \/ GetUsers

\* ------------------------------------------- requests that change the rows
MaxCommits == 2       \* requests that change a row the engine reads

CrudSlots == {1, 2}   \* goroutines of such requests
CrudUsers == {1}      \* the users whose settings are changed
CrudTasks == {1}      \* the tasks that are updated

IdleRequest == [pc |-> "idle", table |-> Nil, id |-> 0, field |-> Nil, row |-> Nil]

\* requests taken up and not yet answered
InFlight == {q \in CrudSlots : crud[q].pc # "idle"}

CrudFrame ==
    <<clock, cfg, notifications, cyc, runs, faults, calls, sched, responses, senderCall,
      accounts, reg, login, db, last, page>>

\* UpdateNotificationsEnabled up to database.DB.First(&user, userID), and
\* user.NotificationsEnabled = *req.NotificationsEnabled
UpdateNotificationsEnabledRead(q) ==
    /\ crud[q].pc = "idle"
    /\ Len(commits) + Cardinality(InFlight) < MaxCommits
    /\ \E userID \in CrudUsers, enabled \in BOOLEAN :
          crud' = [crud EXCEPT ![q] =
                     [pc |-> "save", table |-> "users", id |-> userID,
                      field |-> "NotificationsEnabled",
                      row |-> [users[userID] EXCEPT !.NotificationsEnabled = enabled]]]
    /\ UNCHANGED <<users, tasks, commits, CrudFrame>>

\* UpdateTelegramChatID up to database.DB.First(&user, userID), and
\* user.TelegramChatID = req.TelegramChatID
UpdateTelegramChatIDRead(q) ==
    /\ crud[q].pc = "idle"
    /\ Len(commits) + Cardinality(InFlight) < MaxCommits
    /\ \E userID \in CrudUsers, chatID \in {"123"} :
          crud' = [crud EXCEPT ![q] =
                     [pc |-> "save", table |-> "users", id |-> userID,
                      field |-> "TelegramChatID",
                      row |-> [users[userID] EXCEPT !.TelegramChatID = chatID]]]
    /\ UNCHANGED <<users, tasks, commits, CrudFrame>>

\* the due dates an update asks for: the day of the first instant, the next
\* day, in the server's zone
UpdatedDueDates == {[inst |-> 0, off |-> 0], [inst |-> TicksPerDay, off |-> 0]}

\* taskService.Update, by a user with access to the task, up to
\* s.taskRepo.FindByID(taskID) and the assignments to the fields of the task:
\* completed set, or a due date given
UpdateTaskRead(q) ==
    /\ crud[q].pc = "idle"
    /\ Len(commits) + Cardinality(InFlight) < MaxCommits
    /\ \E taskID \in CrudTasks :
          \/ crud' = [crud EXCEPT ![q] =
                        [pc |-> "save", table |-> "tasks", id |-> taskID,
                         field |-> "Completed",
                         row |-> [tasks[taskID] EXCEPT !.Completed = TRUE]]]
          \/ \E dueDate \in UpdatedDueDates :
                crud' = [crud EXCEPT ![q] =
                           [pc |-> "save", table |-> "tasks", id |-> taskID,
                            field |-> "DueDate",
                            row |-> [tasks[taskID] EXCEPT !.DueDate = dueDate]]]
    /\ UNCHANGED <<users, tasks, commits, CrudFrame>>

\* the cycles a goroutine is inside of
RunningCycles == {cyc[s].run : s \in {x \in Slots : cyc[x].pc # "idle"}}

\* database.DB.Save(&user), s.taskRepo.Update(task): the row is written with
\* every field as the request holds it, and the request is answered
SaveRow(q) ==
    /\ crud[q].pc = "save"
    /\ IF crud[q].table = "users"
       THEN /\ users' = [users EXCEPT ![crud[q].id] = crud[q].row]
            /\ tasks' = tasks
            /\ commits' = Append(commits, [table |-> "users", id |-> crud[q].id,
                                           field |-> crud[q].field,
                                           old |-> users[crud[q].id],
                                           runs |-> runs, running |-> RunningCycles])
       ELSE /\ tasks' = [tasks EXCEPT ![crud[q].id] = crud[q].row]
            /\ users' = users
            /\ commits' = Append(commits, [table |-> "tasks", id |-> crud[q].id,
                                           field |-> crud[q].field,
                                           old |-> tasks[crud[q].id],
                                           runs |-> runs, running |-> RunningCycles])
    /\ crud' = [crud EXCEPT ![q] = IdleRequest]
    /\ UNCHANGED CrudFrame

\* ------------------------------------------------------------ initial state
\* The configuration and the rows the engine may find.  A scenario is the
\* base deployment (SQLite, everything configured, two users with an e-mail
\* address only, one task each, due on day 0) with one of its parts replaced
\* by any value of that part's type.
Times(Insts, Offsets) == {[inst |-> a, off |-> o] : a \in Insts, o \in Offsets}

\* Location offsets of stored due dates: the server's zone, and one zone east
ZoneOffsets == {0, 1}
DueInstants == (0 - TicksPerDay)..(MaxClock + 2 * TicksPerDay)

AllCfgs ==
    [UseMySQL : BOOLEAN, NotificationsEnabled : BOOLEAN, SMTPConfigured : BOOLEAN,
     TelegramBotToken : {"", "token"}]

AllUserRows ==
    [NotificationsEnabled : BOOLEAN, Email : {"", "a@x.com"}, TelegramChatID : {Nil, "", "123"}]

AllTaskRows ==
    [UserID : UserIds, Completed : BOOLEAN,
     DueDate : {NoDueDate} \cup Times(DueInstants, ZoneOffsets)]

BaseCfg ==
    [UseMySQL |-> FALSE, NotificationsEnabled |-> TRUE, SMTPConfigured |-> TRUE,
     TelegramBotToken |-> "token"]

\* usernames and e-mail addresses are unique in the users table
BaseUsernames == <<"ann", "bob">>
BaseEmails == <<"a@x.com", "b@x.com">>
BasePasswords == <<"pw1", "pw2">>

BaseUsers ==
    [u \in UserIds |->
        [NotificationsEnabled |-> TRUE, Email |-> BaseEmails[u], TelegramChatID |-> Nil]]

BaseTasks ==
    [t \in TaskIds |->
        [UserID |-> IF t \in UserIds THEN t ELSE 1, Completed |-> FALSE,
         DueDate |-> [inst |-> 0, off |-> 0]]]

Scenarios ==
    {[cfg |-> c, users |-> BaseUsers, tasks |-> BaseTasks] : c \in AllCfgs}
    \cup {[cfg |-> BaseCfg, users |-> [BaseUsers EXCEPT ![1] = u], tasks |-> BaseTasks] :
            u \in AllUserRows}
    \cup {[cfg |-> [BaseCfg EXCEPT !.UseMySQL = m], users |-> BaseUsers,
           tasks |-> [BaseTasks EXCEPT ![1] = t]] : t \in AllTaskRows, m \in BOOLEAN}

InitWith(Scs, F) ==
    /\ clock = 0
    /\ \E sc \in Scs : cfg = sc.cfg /\ users = sc.users /\ tasks = sc.tasks
    /\ notifications = <<>>
    /\ cyc = [s \in Slots |-> IdleFrame]
    /\ runs = 0
    /\ faults = F
    /\ calls = EmptyBag
    /\ sched = "new"
    /\ responses = EmptyBag
    /\ senderCall = NoCall
    /\ accounts = [u \in 1..Cardinality(UserIds) |->
                     [ID |-> u, Username |-> BaseUsernames[u], Email |-> users[u].Email,
                      Password |-> HashPassword(BasePasswords[u])]]
    /\ reg = [s \in RegSlots |-> IdleRegister]
    /\ login = NoLogin
    /\ db = NoTasks
    /\ last = NoRequest
    /\ page = NoPage
    /\ commits = <<>>
    /\ crud = [q \in CrudSlots |-> IdleRequest]

Init == InitWith(Scenarios, MaxFaults)

Spec == Init /\ [][Next]_vars

\* Cycles that do not overlap: a cycle starts only when no other is running.
NoneRunning == \A s \in Slots : cyc[s].pc = "idle"

SeqNext ==
    \/ StartScheduler
    \/ \E s \in Slots : NoneRunning /\ Begin(s)
    \/ \E s \in Slots : NextTask(s)
    \/ \E s \in Slots : ExistsStep(s)
    \/ \E s \in Slots : SendStep(s)
    \/ \E s \in Slots : CreateStep(s)
    \/ \E s \in Slots : Finish(s)
    \/ \E s \in Slots : Return(s)

SeqSpec == Init /\ [][SeqNext]_vars

\* Overlapping cycles (manual trigger during a scheduled cycle) over the base
\* deployment with any row for user 1.
RaceScenarios ==
    {[cfg |-> BaseCfg, users |-> [BaseUsers EXCEPT ![1] = u], tasks |-> BaseTasks] :
        u \in AllUserRows}

RaceSpec == InitWith(RaceScenarios, MaxFaults) /\ [][Next]_vars

\* A call of the e-mail sender, with any configuration of the service, any
\* address and any behaviour of the SMTP server.
CallEmailSender ==
    /\ \E host \in {"", "smtp.x.com"}, user \in {"", "u"}, password \in {"", "p"},
          email \in {"", "a@x.com"}, reply \in SMTPReplies :
          senderCall' = [chan |-> NotificationChannelEmail,
                         configured |-> host # "" /\ user # "" /\ password # "",
                         dest |-> email, reply |-> reply,
                         out |-> EmailSendNotification(host, user, password, email, reply)]
    /\ UNCHANGED <<engineVars, sched, responses, accounts, reg, api>>

\* A call of the Telegram sender, with any bot token, any chat id and any
\* reply of the Bot API.
CallTelegramSender ==
    /\ \E botToken \in {"", "token"}, chatID \in {"", "123"}, reply \in TelegramReplies :
          senderCall' = [chan |-> NotificationChannelTelegram,
                         configured |-> botToken # "",
                         dest |-> chatID, reply |-> reply,
                         out |-> TelegramSendNotification(botToken, chatID, reply)]
    /\ UNCHANGED <<engineVars, sched, responses, accounts, reg, api>>

SenderNext ==
    \/ CallEmailSender
    \/ CallTelegramSender

\* The channel senders on their own, called with any arguments.
SenderSpec ==
    /\ InitWith({[cfg |-> BaseCfg, users |-> BaseUsers, tasks |-> BaseTasks]}, 0)
    /\ [][SenderNext]_vars

\* Registration requests, one at a time or overlapping, on the base rows.
AuthSpec ==
    /\ InitWith({[cfg |-> BaseCfg, users |-> BaseUsers, tasks |-> BaseTasks]}, 0)
    /\ [][AuthNext]_vars

\* Registrations one at a time and logins, on the base rows.
LoginSpec ==
    /\ InitWith({[cfg |-> BaseCfg, users |-> BaseUsers, tasks |-> BaseTasks]}, 0)
    /\ [][LoginNext]_vars

\* Requests to the task service on empty tables.
TaskSpec ==
    /\ InitWith({[cfg |-> BaseCfg, users |-> BaseUsers, tasks |-> BaseTasks]}, 0)
    /\ [][TaskNext]_vars

\* Paginated listings with any page and limit parameters.
PageSpec ==
    /\ InitWith({[cfg |-> BaseCfg, users |-> BaseUsers, tasks |-> BaseTasks]}, 0)
    /\ [][PageNext]_vars

\* The goroutines the cron starts, one per firing, over the base deployment.
CronNext ==
    \/ StartScheduler
    \/ \E s \in Slots : Tick(s)
    \/ \E s \in Slots : NextTask(s)
    \/ \E s \in Slots : ExistsStep(s)
    \/ \E s \in Slots : SendStep(s)
    \/ \E s \in Slots : CreateStep(s)
    \/ \E s \in Slots : Finish(s)
    \/ \E s \in Slots : Return(s)

CronSpec ==
    /\ InitWith({[cfg |-> BaseCfg, users |-> BaseUsers, tasks |-> BaseTasks]}, MaxFaults)
    /\ [][CronNext]_vars

\* scheduled cycles one after another, and requests served while they run
CrudNext ==
    \/ StartScheduler
    \/ NoneRunning /\ Begin(1)
    \/ \E s \in Slots : NextTask(s)
    \/ \E s \in Slots : ExistsStep(s)
    \/ \E s \in Slots : SendStep(s)
    \/ \E s \in Slots : CreateStep(s)
    \/ \E s \in Slots : Finish(s)
    \/ \E s \in Slots : Return(s)
    \/ \E q \in CrudSlots : UpdateNotificationsEnabledRead(q)
    \/ \E q \in CrudSlots : UpdateTelegramChatIDRead(q)
    \/ \E q \in CrudSlots : UpdateTaskRead(q)
    \/ \E q \in CrudSlots : SaveRow(q)

\* Scheduled cycles that follow one another over the base deployment, with
\* senders and database working, while requests change the settings of user 1 and update
\* task 1.
CrudSpec ==
    /\ InitWith({[cfg |-> BaseCfg, users |-> BaseUsers, tasks |-> BaseTasks]}, 0)
    /\ [][CrudNext]_vars

\* what a goroutine inside a cycle does next
Step(s) ==
    \/ NextTask(s)
    \/ ExistsStep(s)
    \/ SendStep(s)
    \/ CreateStep(s)
    \/ Finish(s)
    \/ Return(s)

\* Every deployment configuration over the base rows, cycles not overlapping.
\* The goroutine of StartScheduler runs, a started cron keeps firing its job,
\* and a goroutine inside a cycle keeps running; requests to the manual trigger
\* may or may not come.
SchedScenarios == {[cfg |-> c, users |-> BaseUsers, tasks |-> BaseTasks] : c \in AllCfgs}

SchedSpec ==
    /\ InitWith(SchedScenarios, MaxFaults)
    /\ [][SeqNext]_vars
    /\ WF_vars(StartScheduler)
    /\ WF_vars(NoneRunning /\ Begin(1))
    /\ \A s \in Slots : WF_vars(Step(s))

\* Cycles that follow one another over the base deployment with any row for
\* user 1 that has notifications enabled, under the same scheduling as
\* SchedSpec.
RetryScenarios == {sc \in RaceScenarios : sc.users[1].NotificationsEnabled}

RetrySpec ==
    /\ InitWith(RetryScenarios, MaxFaults)
    /\ [][SeqNext]_vars
    /\ WF_vars(StartScheduler)
    /\ WF_vars(NoneRunning /\ Begin(1))
    /\ \A s \in Slots : WF_vars(Step(s))

\* =================================================================== claims
CallSet == BagToSet(calls)

SameKey(a, b) == a.user = b.user /\ a.task = b.task /\ a.type = b.type /\ a.chan = b.chan

OkSends == {c \in CallSet : c.op = "send" /\ c.res = "ok"}

\* nothing failed in cycle r: no database error, no sender error
CleanRun(r) == \A c \in CallSet : c.run = r => c.res \in {"ok", "true", "false", "skipped"}

\* the record of a successful send of this key and day could not be written
RecordLost(a) ==
    \E w \in CallSet : w.op = "create" /\ w.res = "err" /\ SameKey(w, a) /\ w.day = a.day

\* C1: with cycles that do not overlap, a (user, task, category, channel) is
\* sent successfully at most once per day as long as its record was written, and
\* a cycle that follows, on the same day, a cycle in which nothing failed sends
\* nothing and records nothing.
C1_SequentialIdempotence ==
    /\ \A a \in OkSends :
          ~RecordLost(a) =>
             /\ CopiesIn(a, calls) = 1
             /\ \A b \in OkSends : (SameKey(a, b) /\ a.day = b.day) => b = a
    /\ \A c1, c2 \in CallSet :
          (c1.run < c2.run /\ c1.day = c2.day /\ CleanRun(c1.run)) =>
             /\ c2.op # "create"
             /\ c2.op = "send" => c2.res # "ok"

\* a second cycle of the same day has finished; it found the record of the
\* first cycle's successful send and suppressed the reminder
C1_Witness ==
    /\ \E s \in Slots : cyc[s].pc = "done" /\ cyc[s].run = 2 /\ cyc[s].result = "ok"
    /\ \E c1 \in OkSends, c2 \in CallSet :
          /\ c1.run = 1 /\ c2.run = 2 /\ c1.day = c2.day /\ SameKey(c1, c2)
          /\ c2.op = "exists" /\ c2.res = "true"

\* the reference rule of the reminder policy on delta = dueDate - referenceDate
ReferenceType(delta) ==
    IF delta < 0 THEN NotificationTypeOverdue
    ELSE IF delta = 0 THEN NotificationTypeDueToday
    ELSE IF delta = 1 THEN NotificationTypeDueSoon
    ELSE Nil

\* the due date of a history entry's task, as the engine loads it
DueOf(c) == LoadedTime(tasks[c.task].DueDate)

\* C2: every task the engine classifies gets the category of the reference
\* rule on the difference, in whole days, between the calendar date of its due
\* timestamp and the calendar date of the cycle; a task the rule gives no
\* category causes no existence check, send or record.
C2_ClassificationByDate ==
    \A c \in CallSet :
        c.op \in {"classify", "exists", "send", "create"} =>
            c.type = ReferenceType(DateOf(DueOf(c)) - c.day)

\* the channels the engine owes a reminder on, for a loaded task
OwedChannels(task) ==
    {ch \in NotificationChannels :
        IF ch = NotificationChannelEmail THEN task.User.Email # ""
        ELSE task.User.TelegramChatID # Nil /\ task.User.TelegramChatID # ""}

\* positions of the dispatch records of a key inside the day of `today`
RecordsInDay(userID, taskID, type, channel, today) ==
    {k \in 1..Len(notifications) :
        /\ notifications[k].UserID = userID /\ notifications[k].TaskID = taskID
        /\ notifications[k].Type = type /\ notifications[k].Channel = channel
        /\ today.inst <= notifications[k].SentAt
        /\ notifications[k].SentAt <= today.inst + TicksPerDay}

\* C3: with overlapping cycles no reminder is lost (a cycle in which nothing
\* failed ends with every reminder it owed either sent by itself or on record
\* for the day), a cycle calls a sender at most once per task and channel, and
\* a cycle that has passed the existence check meets a record of its key only
\* if that record was written after its check.
C3_RaceDuplicatesNeverLoses ==
    /\ \A s \in Slots :
          (cyc[s].pc = "done" /\ cyc[s].result = "ok" /\ CleanRun(cyc[s].run)) =>
             \A k \in 1..Len(cyc[s].list) :
                LET task == cyc[s].list[k]
                    type == NotificationTypeOf(task.DueDate, cyc[s].today)
                IN  (task.User.NotificationsEnabled /\ type # Nil) =>
                       \A ch \in OwedChannels(task) :
                          \/ \E c \in OkSends :
                                /\ c.run = cyc[s].run /\ c.task = task.ID
                                /\ c.type = type /\ c.chan = ch
                          \/ RecordsInDay(task.UserID, task.ID, type, ch, cyc[s].today) # {}
    /\ \A c \in CallSet :
          c.op = "send" =>
             /\ CopiesIn(c, calls) = 1
             /\ \A d \in CallSet :
                   (d.op = "send" /\ d.run = c.run /\ d.task = c.task /\ d.chan = c.chan)
                      => d = c
    /\ \A s \in Slots :
          cyc[s].pc \in {"send", "create"} =>
             \A k \in RecordsInDay(CurTask(cyc[s]).UserID, CurTask(cyc[s]).ID,
                                   cyc[s].ntype, cyc[s].chan, cyc[s].today) :
                k > cyc[s].checked

\* two cycles overlapped, nothing failed, and the day holds two records of
\* one key: both cycles sent the same reminder
C3_Witness ==
    /\ \A r \in 1..runs : CleanRun(r)
    /\ \E a, b \in OkSends : a.run # b.run /\ SameKey(a, b) /\ a.day = b.day
    /\ \E i, j \in 1..Len(notifications) :
          /\ i < j
          /\ notifications[i].TaskID = notifications[j].TaskID
          /\ notifications[i].Type = notifications[j].Type
          /\ notifications[i].Channel = notifications[j].Channel
          /\ notifications[i].SentAt \div TicksPerDay = notifications[j].SentAt \div TicksPerDay

\* the rows of the tasks table the engine must leave alone
Ineligible(t) == tasks[t].Completed \/ tasks[t].DueDate = NoDueDate

\* C4: a task that is completed or has no due date is never loaded by a cycle,
\* never skipped or classified, never checked, sent or recorded.
C4_IneligibleTasksUntouched ==
    /\ \A c \in CallSet : c.op # "load" => ~Ineligible(c.task)
    /\ \A s \in Slots : \A k \in 1..Len(cyc[s].list) : ~Ineligible(cyc[s].list[k].ID)
    /\ \A k \in 1..Len(notifications) : ~Ineligible(notifications[k].TaskID)

\* a cycle has ended that left an ineligible task out and handled the other one
C4_Witness ==
    \E s \in Slots :
        /\ cyc[s].pc = "done" /\ cyc[s].result = "ok"
        /\ \E t \in TaskIds : Ineligible(t)
        /\ \E c \in OkSends : c.run = cyc[s].run

\* C5: a task whose owner has notifications disabled is counted as skipped and
\* gets no category, no existence check, no sender call and no record.
C5_DisabledUsersSkipped ==
    /\ \A c \in CallSet :
          /\ c.op \in {"classify", "exists", "send", "create"}
                => users[c.user].NotificationsEnabled
          /\ c.op = "skip" => ~users[c.user].NotificationsEnabled
    /\ \A k \in 1..Len(notifications) : users[notifications[k].UserID].NotificationsEnabled
    /\ \A s \in Slots :
          (cyc[s].pc = "done" /\ cyc[s].result = "ok") =>
             /\ cyc[s].skippedCount =
                   Cardinality({k \in 1..Len(cyc[s].list) :
                                   ~cyc[s].list[k].User.NotificationsEnabled})
             /\ \A k \in 1..Len(cyc[s].list) :
                   ~cyc[s].list[k].User.NotificationsEnabled =>
                      \E c \in CallSet :
                         c.run = cyc[s].run /\ c.task = cyc[s].list[k].ID /\ c.op = "skip"

\* a cycle has ended that skipped the task of a disabled user, whose due date
\* called for a reminder, and sent the reminder of the other user's task
C5_Witness ==
    \E s \in Slots :
        /\ cyc[s].pc = "done" /\ cyc[s].skippedCount = 1 /\ cyc[s].processedCount = 1
        /\ \E k \in 1..Len(cyc[s].list) :
              /\ ~cyc[s].list[k].User.NotificationsEnabled
              /\ NotificationTypeOf(cyc[s].list[k].DueDate, cyc[s].today) # Nil
        /\ \E c \in OkSends : c.run = cyc[s].run

\* how many history entries (with repetitions) lie in the set S
Copies(S) == BagCardinality([c \in S |-> CopiesIn(c, calls)])

Keys == [user : UserIds, task : TaskIds, type : NotificationTypes, chan : NotificationChannels]

HasKey(c, key) ==
    c.user = key.user /\ c.task = key.task /\ c.type = key.type /\ c.chan = key.chan

\* the dispatch records of a key
RecordsOf(key) ==
    {k \in 1..Len(notifications) :
        /\ notifications[k].UserID = key.user /\ notifications[k].TaskID = key.task
        /\ notifications[k].Type = key.type /\ notifications[k].Channel = key.chan}

\* cycles that have sent a reminder of the key and are about to record it
Recording(key) ==
    {s \in Slots : cyc[s].pc = "create" /\ CurTask(cyc[s]).UserID = key.user
                   /\ CurTask(cyc[s]).ID = key.task /\ cyc[s].ntype = key.type
                   /\ cyc[s].chan = key.chan}

\* C6: per (user, task, category, channel), every dispatch record comes from
\* one successful send of that key: the records, the record writes that failed
\* and the sends still to be recorded add up to the successful sends; a send
\* that failed leads to no record write.
C6_RecordOnlyAfterSuccess ==
    /\ \A key \in Keys :
          Cardinality(RecordsOf(key)) + Cardinality(Recording(key))
             + Copies({c \in CallSet : c.op = "create" /\ c.res = "err" /\ HasKey(c, key)})
          = Copies({c \in OkSends : HasKey(c, key)})
    /\ Len(notifications) <= Copies(OkSends)
    /\ \A c, d \in CallSet :
          (c.op = "send" /\ c.res # "ok" /\ d.op = "create") =>
             ~(d.run = c.run /\ d.task = c.task /\ d.chan = c.chan)

\* a cycle has ended in which the chat sender answered "chat not found": there
\* is no telegram record of that task, and the cycle recorded another send
C6_Witness ==
    \E s \in Slots, c \in CallSet :
        /\ cyc[s].pc = "done" /\ cyc[s].run = c.run
        /\ c.op = "send" /\ c.res = "chat not found"
        /\ \A k \in 1..Len(notifications) :
              ~(notifications[k].TaskID = c.task
                /\ notifications[k].Channel = NotificationChannelTelegram)
        /\ \E d \in CallSet : d.run = c.run /\ d.op = "create" /\ d.res = "ok"

\* C7: after an error of the existence check for a (task, channel) the cycle
\* calls no sender and writes no record for that (task, channel), and it goes on:
\* it checks the other channel of the task and handles every other task loaded.
C7_ExistsErrorMeansNoSend ==
    /\ \A c, d \in CallSet :
          (c.op = "exists" /\ c.res = "err" /\ d.op \in {"send", "create"}) =>
             ~(d.run = c.run /\ d.task = c.task /\ d.chan = c.chan)
    /\ \A s \in Slots, c \in CallSet :
          (cyc[s].pc = "done" /\ cyc[s].run = c.run /\ c.op = "exists" /\ c.res = "err") =>
             /\ cyc[s].result = "ok"
             /\ \A k \in 1..Len(cyc[s].list) :
                   \E d \in CallSet :
                      /\ d.run = c.run /\ d.task = cyc[s].list[k].ID
                      /\ d.op \in {"classify", "skip"}
             /\ (c.chan = NotificationChannelEmail
                 /\ users[c.user].TelegramChatID \notin {Nil, ""}) =>
                   \E d \in CallSet :
                      /\ d.run = c.run /\ d.task = c.task /\ d.op = "exists"
                      /\ d.chan = NotificationChannelTelegram

\* a cycle has ended whose e-mail existence check failed for a task: nothing was
\* sent by e-mail, the telegram reminder of the same task was sent and recorded
C7_Witness ==
    \E s \in Slots, c, d \in CallSet :
        /\ cyc[s].pc = "done" /\ cyc[s].run = c.run /\ d.run = c.run
        /\ c.op = "exists" /\ c.res = "err" /\ c.chan = NotificationChannelEmail
        /\ d.op = "create" /\ d.res = "ok" /\ d.task = c.task
        /\ d.chan = NotificationChannelTelegram

\* how often cycle r has taken up task t (skip or classification)
Handled(r, t) ==
    Copies({c \in CallSet : c.run = r /\ c.task = t /\ c.op \in {"classify", "skip"}})

\* C8: whatever fails, a cycle whose load worked takes up the loaded tasks one
\* at a time in load order, each exactly once, counts each as processed or
\* skipped, ends only after the last one and returns success.
C8_FailuresContained ==
    \A s \in Slots :
        (cyc[s].pc # "idle" /\ cyc[s].result # "err") =>
           /\ \A k \in 1..Len(cyc[s].list) :
                 Handled(cyc[s].run, cyc[s].list[k].ID) =
                    IF k < cyc[s].i \/ (k = cyc[s].i /\ cyc[s].pc # "loop") THEN 1 ELSE 0
           /\ cyc[s].processedCount + cyc[s].skippedCount = cyc[s].i - 1
           /\ cyc[s].pc = "done" =>
                 /\ cyc[s].i = Len(cyc[s].list) + 1
                 /\ cyc[s].result = "ok"
           /\ \A c \in CallSet :
                 (c.run = cyc[s].run /\ c.op = "load") => c.res = "ok"

\* a cycle has ended with success although a call failed on its first task;
\* its second task got its reminder
C8_Witness ==
    \E s \in Slots, c, d \in CallSet :
        /\ cyc[s].pc = "done" /\ cyc[s].result = "ok" /\ Len(cyc[s].list) = 2
        /\ c.run = cyc[s].run /\ d.run = cyc[s].run
        /\ c.task = cyc[s].list[1].ID /\ c.res \in {"err", "failed to send email"}
        /\ d.task = cyc[s].list[2].ID /\ d.op = "create" /\ d.res = "ok"

\* the destination of a channel is set in a users row
HasDestination(u, ch) ==
    IF ch = NotificationChannelEmail THEN users[u].Email # ""
    ELSE users[u].TelegramChatID # Nil /\ users[u].TelegramChatID # ""

\* C9: a channel is checked, sent on and recorded only for a user with a
\* destination for it; the existence check of a channel answers "already sent"
\* only on a record of that same channel; and a cycle checks every channel the
\* user has a destination for, whatever happened on the other channel.
C9_ChannelIndependence ==
    /\ \A c \in CallSet :
          c.op \in {"exists", "send", "create"} => HasDestination(c.user, c.chan)
    /\ \A k \in 1..Len(notifications) :
          HasDestination(notifications[k].UserID, notifications[k].Channel)
    /\ \A c \in CallSet :
          (c.op = "exists" /\ c.res = "true") =>
             RecordsOf([user |-> c.user, task |-> c.task, type |-> c.type, chan |-> c.chan]) # {}
    /\ \A s \in Slots, c \in CallSet :
          (cyc[s].pc = "done" /\ c.run = cyc[s].run /\ c.op = "classify" /\ c.type # Nil) =>
             \A ch \in NotificationChannels :
                HasDestination(c.user, ch) =>
                   \E d \in CallSet :
                      /\ d.run = c.run /\ d.task = c.task /\ d.type = c.type
                      /\ d.op = "exists" /\ d.chan = ch

\* a cycle has ended that found the e-mail reminder of a task on record and
\* sent the telegram reminder of the same task, which had failed before
C9_Witness ==
    \E s \in Slots, c, d \in CallSet :
        /\ cyc[s].pc = "done" /\ c.run = cyc[s].run /\ d.run = cyc[s].run
        /\ c.task = d.task
        /\ c.op = "exists" /\ c.res = "true" /\ c.chan = NotificationChannelEmail
        /\ d.op = "create" /\ d.res = "ok" /\ d.chan = NotificationChannelTelegram

\* C10: a cycle whose load step fails returns the error to its caller and
\* does nothing else: no task is taken up, no existence check, no sender call,
\* no record write; and only a failed load makes a cycle return an error.
C10_LoadFailureAborts ==
    /\ \A c \in CallSet :
          (c.op = "load" /\ c.res = "err") =>
             /\ \A d \in CallSet : d.run = c.run => d = c
             /\ \A s \in Slots :
                   cyc[s].run = c.run =>
                      cyc[s].pc = "done" /\ cyc[s].result = "err" /\ cyc[s].list = <<>>
    /\ \A s \in Slots :
          cyc[s].result = "err" =>
             \E c \in CallSet : c.run = cyc[s].run /\ c.op = "load" /\ c.res = "err"

\* the load of a cycle has failed, with a reminder owed and no record written
C10_Witness ==
    \E s \in Slots :
        /\ cyc[s].pc = "done" /\ cyc[s].result = "err"
        /\ notifications = <<>>
        /\ \E t \in ActiveTaskIds :
              /\ users[tasks[t].UserID].NotificationsEnabled
              /\ NotificationTypeOf(LoadedTime(tasks[t].DueDate), cyc[s].today) # Nil

\* C11: with notifications disabled by configuration the scheduler never
\* starts and no cycle is ever invoked by it; a cycle invoked by the scheduler
\* means the cron was started with notifications enabled; with notifications
\* enabled the cron does start and keeps invoking cycles.
C11_SchedulerShortCircuit ==
    /\ [](~cfg.NotificationsEnabled =>
            /\ sched # "on"
            /\ cyc[1].pc = "idle"
            /\ \A c \in CallSet : c.kind # "cron")
    /\ []((cyc[1].pc # "idle" \/ \E c \in CallSet : c.kind = "cron") =>
            sched = "on" /\ cfg.NotificationsEnabled)
    /\ (cfg.NotificationsEnabled ~> sched = "on")
    /\ (cfg.NotificationsEnabled ~> runs = MaxRuns)

\* notifications are disabled, StartScheduler has returned, and every cycle
\* that ran was a manual one
C11_Witness ==
    /\ ~cfg.NotificationsEnabled
    /\ sched = "off"
    /\ runs = MaxRuns
    /\ NoneRunning
    /\ \A c \in CallSet : c.kind = "manual"

\* the cycles the manual trigger has started
ManualRuns == {c.run : c \in {d \in CallSet : d.op = "load" /\ d.kind = "manual"}}

\* C12: every answer of the manual trigger belongs to one cycle that the
\* trigger started and that has returned, a returned manual cycle has exactly
\* one answer, and the answer is 500 exactly when the load of that cycle failed:
\* it is 200 otherwise, whatever failed for the single notifications.
C12_ManualTriggerResponse ==
    /\ \A r \in BagToSet(responses) :
          /\ r.run \in ManualRuns
          /\ CopiesIn(r, responses) = 1
          /\ \A q \in BagToSet(responses) : q.run = r.run => q = r
          /\ \A s \in Slots : cyc[s].run # r.run
          /\ r.status \in {StatusOK, StatusInternalServerError}
          /\ r.status = StatusInternalServerError <=>
                \E c \in CallSet : c.run = r.run /\ c.op = "load" /\ c.res = "err"
    /\ \A n \in ManualRuns :
          (\E s \in Slots : cyc[s].run = n) \/ (\E r \in BagToSet(responses) : r.run = n)

\* the manual trigger has answered 200 for a cycle in which every send failed
C12_Witness ==
    \E r \in BagToSet(responses) :
        /\ r.status = StatusOK
        /\ \E c \in CallSet : c.run = r.run /\ c.op = "send"
        /\ \A c \in CallSet : (c.run = r.run /\ c.op = "send") => c.res # "ok"

\* cycle r called the sender for (t, type, ch) and the sender failed
FailedSend(t, ch, type, r) ==
    \E c \in CallSet :
        /\ c.op = "send" /\ c.res # "ok"
        /\ c.task = t /\ c.chan = ch /\ c.type = type /\ c.run = r

\* from here on the sender of ch succeeds and the database answers
SenderWorks(ch) ==
    /\ faults = 0
    /\ ch = NotificationChannelEmail => cfg.SMTPConfigured
    /\ ch = NotificationChannelTelegram => cfg.TelegramBotToken # ""

\* a cycle after r has sent the reminder and it is on record
DeliveredAfter(t, ch, type, r) ==
    /\ \E c \in OkSends : c.task = t /\ c.chan = ch /\ c.type = type /\ c.run > r
    /\ \E k \in 1..Len(notifications) :
          /\ notifications[k].TaskID = t /\ notifications[k].Channel = ch
          /\ notifications[k].Type = type

\* a cycle after r has found the task in another category
CategoryChangedAfter(t, type, r) ==
    \E c \in CallSet : c.op = "classify" /\ c.task = t /\ c.run > r /\ c.type # type

\* the reminders whose send failed in a cycle that is not the last one, now
\* that the sender works
RetryOwed ==
    {o \in [task : TaskIds, chan : NotificationChannels, type : NotificationTypes,
            run : 1..(MaxRuns - 1)] :
        FailedSend(o.task, o.chan, o.type, o.run) /\ SenderWorks(o.chan)}

\* C13: a cycle calls the sender at most once per task and channel and writes
\* no record after a failed send; a later cycle of the same day that ends
\* calls the sender for that reminder again unless its existence check failed
\* or the reminder was sent meanwhile; and, with cycles scheduled fairly, once
\* the sender works and a cycle is still to come, a reminder whose send failed
\* is eventually sent and recorded unless the task has changed category.
C13_RetryByRerun ==
    /\ [](\A c \in CallSet :
            (c.op = "send" /\ c.res # "ok") =>
               /\ CopiesIn(c, calls) = 1
               /\ \A d \in CallSet :
                     (d.run = c.run /\ d.task = c.task /\ d.chan = c.chan
                      /\ d.op \in {"send", "create"}) => d = c
               /\ \A s \in Slots :
                     (cyc[s].pc = "done" /\ cyc[s].run > c.run
                      /\ DateOf(cyc[s].today) = c.day
                      /\ \E k \in 1..Len(cyc[s].list) : cyc[s].list[k].ID = c.task) =>
                        \E d \in CallSet :
                           /\ d.task = c.task /\ d.chan = c.chan /\ d.type = c.type
                           /\ \/ d.run = cyc[s].run /\ d.op = "send"
                              \/ d.run = cyc[s].run /\ d.op = "exists" /\ d.res = "err"
                              \/ d.run > c.run /\ d.run < cyc[s].run /\ d.op = "send"
                                 /\ d.res = "ok" /\ d.day = c.day)
    /\ (RetryOwed # {})
          ~> (\A o \in RetryOwed :
                 \/ DeliveredAfter(o.task, o.chan, o.type, o.run)
                 \/ CategoryChangedAfter(o.task, o.type, o.run))

\* the send of a reminder failed in the first cycle; the second cycle, on the
\* same day, sent it and recorded it
C13_Witness ==
    \E c, d, e \in CallSet :
        /\ c.op = "send" /\ c.res # "ok" /\ c.run = 1
        /\ d.op = "send" /\ d.res = "ok" /\ d.run = 2
        /\ e.op = "create" /\ e.res = "ok" /\ e.run = 2
        /\ SameKey(c, d) /\ SameKey(c, e) /\ c.day = d.day

\* no database call and no sender call has failed so far
NothingFailed == \A c \in CallSet : c.res \in {"ok", "true", "false", "skipped"}

\* how many times the reminder (task, type, channel) was sent by cycles of day
SentOn(task, type, channel, day) ==
    Copies({c \in OkSends : c.task = task /\ c.type = type /\ c.chan = channel
                               /\ c.day = day})

\* C14: with senders and database working, when a cycle of a day has ended,
\* every loaded task of a notifications-enabled user has received on that day,
\* on every channel the user has a destination for, exactly one reminder of the
\* category the reference rule gives for that day (DueSoon on the eve of the
\* due date, DueToday on it, Overdue on each later day) and none of any other
\* category.
C14_OncePerTypePerDay ==
    \A s \in Slots :
        (cyc[s].pc = "done" /\ cyc[s].result = "ok" /\ NothingFailed) =>
           \A k \in 1..Len(cyc[s].list) :
              LET task == cyc[s].list[k]
                  day == DateOf(cyc[s].today)
                  owed == ReferenceType(DateOf(task.DueDate) - day)
              IN  task.User.NotificationsEnabled =>
                     \A ch \in OwedChannels(task), type \in NotificationTypes :
                        SentOn(task.ID, type, ch, day) = IF type = owed THEN 1 ELSE 0

\* the calendar days the clock reaches
Days == 0..(MaxClock \div TicksPerDay)

\* C15: for every key and every calendar day, Exists answers true exactly
\* when the dispatch log holds a record of that user, task, category and channel
\* whose sent timestamp lies in that day; a record stamped at the midnight that
\* ends the day belongs to the next day.
C15_ExistsIffRecordInDay ==
    \A key \in Keys, day \in Days :
        Exists(key.user, key.task, key.type, key.chan, Now(day * TicksPerDay))
           <=> \E k \in RecordsOf(key) : DateOf(Now(notifications[k].SentAt)) = day

\* the error the Bot API's answer stands for, by its error_code and description
TelegramReference(code, desc, chatID) ==
    IF code = 400 /\ desc = "Bad Request: chat not found"
    THEN Returned("chat not found", 0, chatID, TRUE)
    ELSE IF code = 401 THEN Returned("telegram API error", 401, "invalid bot token", TRUE)
    ELSE IF code = 403 THEN Returned("telegram API error", 403, "bot was blocked by user", TRUE)
    ELSE Returned("telegram API error", code, desc, TRUE)

\* C16: the Telegram sender returns success only if the Bot API answered HTTP
\* 200, and for an answer other than 200 whose body parses it returns the error
\* that the body's error_code stands for: chat not found (error_code 400 with
\* that description), invalid bot token (401), bot blocked by user (403), and
\* the code and description as they came in every other case.
C16_TelegramResultMapping ==
    senderCall.chan = NotificationChannelTelegram =>
       /\ senderCall.out.msg = "ok" =>
             senderCall.reply.net = "ok" /\ senderCall.reply.status = 200
       /\ (senderCall.configured /\ senderCall.dest # "" /\ senderCall.reply.net = "ok") =>
             /\ senderCall.reply.status = 200 => senderCall.out.msg = "ok"
             /\ (senderCall.reply.status # 200 /\ senderCall.reply.parses) =>
                   senderCall.out = TelegramReference(senderCall.reply.code,
                                                      senderCall.reply.desc, senderCall.dest)

\* the Bot API answered 403 with error_code 400 "chat not found" in the body
\* and the sender returned the chat-not-found error
C16_Witness ==
    /\ senderCall.chan = NotificationChannelTelegram
    /\ senderCall.reply.net = "ok" /\ senderCall.reply.status = 403
    /\ senderCall.reply.parses /\ senderCall.reply.code = 400
    /\ senderCall.out.msg = "chat not found"

\* the errors that tell of a missing configuration
ConfigurationErrors ==
    {"email service not configured", "telegram bot token not configured",
     "user telegram chat ID not configured"}

CreateFailed(c) == c.op = "create" /\ c.res = "err"

\* C18: a failed record write undoes nothing and stops nothing: the send it
\* follows stays a successful send of the cycle, the log gets no record for it,
\* the cycle goes on to the other channel and the remaining tasks and returns
\* success; a later cycle of the same day that ends has called the sender for
\* that reminder again, or its existence check failed, or a cycle in between
\* has sent it.
C18_RecordWriteFailure ==
    /\ \A c \in CallSet :
          CreateFailed(c) =>
             /\ \E d \in OkSends : d.run = c.run /\ SameKey(d, c)
             /\ \A s \in Slots :
                   (cyc[s].run = c.run /\ cyc[s].pc = "done") =>
                      /\ cyc[s].result = "ok"
                      /\ \A k \in 1..Len(cyc[s].list) :
                            Handled(c.run, cyc[s].list[k].ID) = 1
                      /\ (c.chan = NotificationChannelEmail
                          /\ HasDestination(c.user, NotificationChannelTelegram)) =>
                            \E d \in CallSet :
                               /\ d.run = c.run /\ d.task = c.task /\ d.op = "exists"
                               /\ d.chan = NotificationChannelTelegram
             /\ \A s \in Slots :
                   (cyc[s].pc = "done" /\ cyc[s].run > c.run
                    /\ DateOf(cyc[s].today) = c.day
                    /\ \E k \in 1..Len(cyc[s].list) : cyc[s].list[k].ID = c.task) =>
                      \E d \in CallSet :
                         /\ SameKey(d, c)
                         /\ \/ d.run = cyc[s].run /\ d.op = "send"
                            \/ d.run = cyc[s].run /\ d.op = "exists" /\ d.res = "err"
                            \/ d.run > c.run /\ d.run < cyc[s].run /\ d.op = "send"
                               /\ d.res = "ok" /\ d.day = c.day
             /\ Cardinality(RecordsOf([user |-> c.user, task |-> c.task, type |-> c.type,
                                       chan |-> c.chan]))
                   <= Copies({d \in OkSends : SameKey(d, c)})
                      - Copies({d \in CallSet : CreateFailed(d) /\ SameKey(d, c)})

\* the record write failed in the first cycle, which nevertheless ended with
\* success; the second cycle, on the same day, sent the same reminder again
C18_Witness ==
    \E c, d, e \in CallSet :
        /\ CreateFailed(c) /\ c.run = 1
        /\ d \in OkSends /\ d.run = 1 /\ SameKey(c, d)
        /\ e \in OkSends /\ e.run = 2 /\ SameKey(c, e) /\ e.day = c.day
        /\ \E r \in BagToSet(responses) : r.run = 1 /\ r.status = StatusOK

\* C19: when a cycle ends, the tasks it loaded are the ones it counted as
\* processed plus the ones it counted as skipped, and the number it reports as
\* notifications sent is the number of sender calls of the cycle that returned
\* success.
C19_CycleCounts ==
    \A s \in Slots :
        (cyc[s].pc = "done" /\ cyc[s].result = "ok") =>
           /\ Len(cyc[s].list) = cyc[s].processedCount + cyc[s].skippedCount
           /\ cyc[s].notificationCount = Copies({c \in OkSends : c.run = cyc[s].run})

\* C20: a Register whose username or e-mail address belonged to a user when
\* it was called issues no token and adds no user, and when its lookup answers
\* it fails with ErrUserAlreadyExists; only such a Register fails with that
\* error; and no two users ever share a username or an e-mail address.
C20_RegistrationUniqueness ==
    /\ \A s \in RegSlots :
          /\ (reg[s].pc = "done" /\ reg[s].taken) =>
                /\ reg[s].token = Nil
                /\ ~reg[s].created
                /\ reg[s].lookup = "ok" => reg[s].err = ErrUserAlreadyExists
          /\ reg[s].err = ErrUserAlreadyExists => reg[s].taken
          /\ reg[s].token # Nil => reg[s].created /\ reg[s].err = Nil
    /\ \A i, j \in 1..Len(accounts) :
          i # j => /\ accounts[i].Username # accounts[j].Username
                   /\ accounts[i].Email # accounts[j].Email

\* a third user has registered, and a Register with a new username and the
\* e-mail address of an existing user has failed with ErrUserAlreadyExists
C20_Witness ==
    /\ Len(accounts) = 3
    /\ \E s \in RegSlots :
          /\ reg[s].pc = "done" /\ reg[s].err = ErrUserAlreadyExists
          /\ \A k \in 1..Len(accounts) : accounts[k].Username # reg[s].username
          /\ \E k \in 1..Len(accounts) : accounts[k].Email = reg[s].email

\* the user row that satisfies the credentials of the last Login, if any
Credentialed ==
    {k \in 1..Len(accounts) :
        /\ accounts[k].Username = login.identifier \/ accounts[k].Email = login.identifier
        /\ accounts[k].Password = <<"bcrypt", login.password>>}

\* C21: a Login whose identifier matches no user, and a Login whose identifier
\* matches a user whose password is another one, both return
\* ErrInvalidCredentials, no user and no token; a Login that returns a token
\* returns no error and the user whose username or e-mail address is the
\* identifier and whose password is the one given.
C21_LoginUniformFailure ==
    login # NoLogin =>
        /\ Credentialed = {} =>
              login.out = [user |-> 0, token |-> Nil, err |-> ErrInvalidCredentials]
        /\ login.out.token # Nil =>
              /\ login.out.err = Nil
              /\ \E k \in Credentialed : login.out.user = accounts[k].ID
        /\ login.out.err # Nil => login.out.token = Nil /\ login.out.user = 0

\* a Login with the username of a user registered since the start and a
\* password that is not that user's has failed
C21_Witness ==
    /\ login # NoLogin
    /\ login.out.err = ErrInvalidCredentials
    /\ \E k \in 1..Len(accounts) :
          /\ k > 2
          /\ accounts[k].Username = login.identifier
          /\ accounts[k].Password # <<"bcrypt", login.password>>

\* the last request created a task for a user other than its caller
CreatedForOther ==
    /\ last.op = "Create"
    /\ last.arg \notin {NoUserID, last.caller}

\* C22: a Create by one user that names another existing user and succeeds
\* inserts one task, owned by the named user, with the creator as AssignedBy
\* and in its shared-with list, so that both have access to it; a Create that
\* names a user that does not exist fails with ErrUserNotFound and inserts
\* nothing.
C22_CreateForAnotherUser ==
    CreatedForOther =>
        /\ (last.arg \in TaskUsers /\ last.err = Nil) =>
              /\ Len(db.rows) = Len(last.before.rows) + 1
              /\ last.task = Len(db.rows)
              /\ db.rows[last.task].UserID = last.arg
              /\ db.rows[last.task].AssignedBy = last.caller
              /\ ~db.rows[last.task].Deleted
              /\ <<last.task, last.caller>> \in db.shared
              /\ db.shared \ {<<last.task, last.caller>>} = last.before.shared
              /\ UserCanAccessTask(db, last.task, last.arg)
              /\ UserCanAccessTask(db, last.task, last.caller)
        /\ last.arg \notin TaskUsers =>
              /\ last.err = ErrUserNotFound
              /\ db = last.before

\* a user has created a task for another user
C22_Witness ==
    /\ CreatedForOther
    /\ last.arg \in TaskUsers
    /\ last.err = Nil
    /\ Len(db.rows) = 1

\* the task of the last request was there, not deleted, before the request
OnLiveTask ==
    /\ last.op \in {"GetByID", "Update", "Delete", "ShareTask", "UnshareTask"}
    /\ last.task \in 1..Len(last.before.rows)
    /\ ~last.before.rows[last.task].Deleted

IsOwner == last.before.rows[last.task].UserID = last.caller

HasAccess ==
    \/ IsOwner
    \/ last.before.rows[last.task].AssignedBy = last.caller
    \/ <<last.task, last.caller>> \in last.before.shared

Permitted == IF last.op \in {"GetByID", "Update"} THEN HasAccess ELSE IsOwner

\* C24: on a task that exists, GetByID and Update succeed only for the owner,
\* the assigner and the users the task is shared with, and Delete, ShareTask
\* and UnshareTask only for the owner; for any other caller the request fails,
\* with ErrForbidden when the task was read, and the tasks and the sharing
\* lists stay as they were.
C24_TaskAccessControl ==
    OnLiveTask =>
        /\ last.err = Nil => Permitted
        /\ ~Permitted =>
              /\ last.err # Nil
              /\ last.fault # "find" => last.err = ErrForbidden
              /\ db = last.before

\* a user the task is shared with, who is neither its owner nor its assigner,
\* has asked to delete it
C24_Witness ==
    /\ OnLiveTask
    /\ last.op = "Delete"
    /\ HasAccess
    /\ ~IsOwner
    /\ last.before.rows[last.task].AssignedBy # last.caller
    /\ last.err = ErrForbidden

\* the number a parameter of the last listing asks for; 0 when there is none
Requested(p) == IF p.kind = "int" THEN p.n ELSE 0

\* C23: a listing answers with the requested page when that is above 0 and
\* with 1 otherwise, with the requested limit when that is above 0 (100 when it
\* is above 100) and with 10 otherwise, with at most limit items, and with
\* total_pages the least number of pages of limit items that hold total items,
\* 1 when there is none.
C23_PaginationArithmetic ==
    page # NoPage =>
        LET rp == Requested(page.pageParam)
            rl == Requested(page.limitParam)
            out == page.out
        IN  /\ out.Page = IF rp > 0 THEN rp ELSE 1
            /\ out.Limit = IF rl > 100 THEN 100 ELSE IF rl > 0 THEN rl ELSE 10
            /\ out.Total = page.total
            /\ Len(out.Items) <= out.Limit
            /\ out.TotalPages >= 1
            /\ page.total <= out.TotalPages * out.Limit
            /\ out.TotalPages > 1 => (out.TotalPages - 1) * out.Limit < page.total

\* a listing of tasks asked with limit 2 and page 3 has answered with the
\* last of five rows
C23_Witness ==
    /\ page.op = "GetByUserID"
    /\ page.limitParam = [kind |-> "int", n |-> 2]
    /\ page.pageParam = [kind |-> "int", n |-> 3]
    /\ page.out.TotalPages = 3
    /\ page.out.Items = <<5>>

\* C25: with cfg.NotificationsEnabled false, no sender is ever called and no
\* record is ever written, whether cycles are started by the scheduler or by
\* POST /notifications/test.
C25_MasterSwitch ==
    ~cfg.NotificationsEnabled =>
        /\ notifications = <<>>
        /\ \A c \in CallSet : c.op \notin {"send", "create"}

\* C26: at most one goroutine is inside a cycle started by the cron.
C26_NoOverlappingScheduledCycles ==
    Cardinality({s \in Slots : cyc[s].pc # "idle" /\ cyc[s].kind = "cron"}) <= 1

\* C27: no step of a cycle changes a row of the tasks table or of the users
\* table, and every step leaves the notifications table as it was or with new
\* rows after the ones it had.
C27_AppendOnlyReadOnly ==
    [][/\ tasks' = tasks
       /\ users' = users
       /\ Len(notifications') >= Len(notifications)
       /\ SubSeq(notifications', 1, Len(notifications)) = notifications]_vars

\* two cycles have run, and records of two days are in the table
C27_Witness ==
    /\ runs = 2
    /\ NoneRunning
    /\ \E i, j \in 1..Len(notifications) :
          DateOf(Now(notifications[i].SentAt)) # DateOf(Now(notifications[j].SentAt))

\* the users and tasks tables with the commits from position k down to the
\* first one made after cycle r started taken back
RECURSIVE TablesBefore(_, _, _)
TablesBefore(k, T, r) ==
    IF k = 0 \/ commits[k].runs < r THEN T
    ELSE TablesBefore(k - 1,
                      IF commits[k].table = "users"
                      THEN [T EXCEPT !.users[commits[k].id] = commits[k].old]
                      ELSE [T EXCEPT !.tasks[commits[k].id] = commits[k].old],
                      r)

\* the tables as they were when cycle r started
TablesAt(r) == TablesBefore(Len(commits), [users |-> users, tasks |-> tasks], r)

\* whether the row of a user has a destination for a channel
RowHasDestination(user, ch) ==
    IF ch = NotificationChannelEmail THEN user.Email # ""
    ELSE user.TelegramChatID # Nil /\ user.TelegramChatID # ""

C29_PerDayCategoryExclusivity ==
    DateOf(Now(clock)) = 0 =>
        \A i, j \in 1..Len(notifications) :
            (/\ notifications[i].TaskID = notifications[j].TaskID
             /\ notifications[i].Channel = notifications[j].Channel)
                => notifications[i].Type = notifications[j].Type

\* C30: a task whose due timestamp comes back in a zone other than the
\* server's is classified DueToday when the calendar date of the timestamp is
\* the date of the cycle, and DueSoon when it is the date after.
C30_ClassificationAcrossZones ==
    \A c \in CallSet :
        (c.op = "classify" /\ DueOf(c).off # 0) =>
            /\ DateOf(DueOf(c)) = c.day => c.type = NotificationTypeDueToday
            /\ DateOf(DueOf(c)) = c.day + 1 => c.type = NotificationTypeDueSoon

====
